---- MODULE Spec2Model ----
(***************************************************************************)
(* A model of the gb-debug emulator core: the processor's registers,      *)
(* flags and ALU (src/src/cpu), the memory-mapping unit (src/src/mmu)     *)
(* with its timer, and the mode state machine of the pixel unit           *)
(* (src/src/ppu).                                                          *)
(*                                                                         *)
(* Bytes are integers 0..255 and words 0..65535; every arithmetic          *)
(* operation keeps the width of the Rust type it models.                   *)
(***************************************************************************)
EXTENDS Integers, Sequences, FiniteSets, TLC

VARIABLES registers, ime, is_halted, call_stack, mmu, last, steps, audio

vars == <<registers, ime, is_halted, call_stack, mmu, last, steps, audio>>

Byte == 0..255

(***************************************************************************)
(* Bit helpers                                                             *)
(***************************************************************************)
Pow2(n) == 2^n

\* is_set(byte, position): (byte >> position) & 1 == 1
IsSet(byte, position) == (byte \div Pow2(position)) % 2 = 1

\* bit(value, position) of mmu/mod.rs and ppu/mod.rs
BitAt(value, position) == IF value THEN Pow2(position) ELSE 0

\* the u8 operators &, | and ^, bit by bit
And8(x, y) ==
    LET b(i) == IF IsSet(x, i) /\ IsSet(y, i) THEN Pow2(i) ELSE 0
    IN  b(0) + b(1) + b(2) + b(3) + b(4) + b(5) + b(6) + b(7)

Or8(x, y) ==
    LET b(i) == IF IsSet(x, i) \/ IsSet(y, i) THEN Pow2(i) ELSE 0
    IN  b(0) + b(1) + b(2) + b(3) + b(4) + b(5) + b(6) + b(7)

Xor8(x, y) ==
    LET b(i) == IF IsSet(x, i) # IsSet(y, i) THEN Pow2(i) ELSE 0
    IN  b(0) + b(1) + b(2) + b(3) + b(4) + b(5) + b(6) + b(7)

\* u8 and u16 wrapping arithmetic
Wrap8(x) == x % 256
Wrap16(x) == x % 65536

InRange(addr, lo, hi) == lo <= addr /\ addr <= hi

(***************************************************************************)
(* Flag register and register pairs (cpu/register.rs)                      *)
(***************************************************************************)
FlagsNew == [zero |-> FALSE, subtract |-> FALSE, half_carry |-> FALSE, carry |-> FALSE]

\* bit(condition) of cpu/register.rs
Bit01(condition) == IF condition THEN 1 ELSE 0

\* a plausible slip: the carry flag lands on bit 3
FlagsToU8Low(flag) ==
    Bit01(flag.zero) * 128 + Bit01(flag.subtract) * 64
        + Bit01(flag.half_carry) * 32 + Bit01(flag.carry) * 8

\* impl From<FlagsRegister> for u8
FlagsToU8(flag) ==
    Bit01(flag.zero) * 128 + Bit01(flag.subtract) * 64
        + Bit01(flag.half_carry) * 32 + Bit01(flag.carry) * 16

\* impl From<u8> for FlagsRegister
FlagsFromU8(byte) ==
    [zero |-> IsSet(byte, 7), subtract |-> IsSet(byte, 6),
     half_carry |-> IsSet(byte, 5), carry |-> IsSet(byte, 4)]

get_af(r) == r.a * 256 + FlagsToU8(r.f)
set_af(r, value) ==
    [r EXCEPT !.a = (value - (value % 256)) \div 256, !.f = FlagsFromU8(value % 256)]

get_bc(r) == r.b * 256 + r.c
set_bc(r, value) == [r EXCEPT !.b = value \div 256, !.c = value % 256]

get_de(r) == r.d * 256 + r.e
set_de(r, value) == [r EXCEPT !.d = value \div 256, !.e = value % 256]

get_hl(r) == r.h * 256 + r.l
set_hl(r, value) == [r EXCEPT !.h = value \div 256, !.l = value % 256]

\* Registers::new followed by reset(), for each mode and boot-ROM choice
RegistersNew(color, using_boot_rom) ==
    IF using_boot_rom
    THEN [a |-> 0, f |-> FlagsNew, b |-> 0, c |-> 0, d |-> 0, e |-> 0,
          h |-> 0, l |-> 13, pc |-> 0, sp |-> 0]
    ELSE IF color
    THEN [a |-> 17, f |-> [FlagsNew EXCEPT !.zero = TRUE],
          b |-> 0, c |-> 0, d |-> 255, e |-> 86, h |-> 0, l |-> 13,
          pc |-> 256, sp |-> 65534]
    ELSE [a |-> 1,
          f |-> [zero |-> TRUE, subtract |-> FALSE, half_carry |-> TRUE, carry |-> TRUE],
          b |-> 0, c |-> 19, d |-> 0, e |-> 216, h |-> 1, l |-> 77,
          pc |-> 256, sp |-> 65534]

(***************************************************************************)
(* The 8-bit ALU (cpu/mod.rs).  Each operator maps the register file to    *)
(* the register file after the call.                                       *)
(***************************************************************************)
\* a plausible slip: the half-carry of ADD taken from the full byte
alu_add_nohalf(r, value) ==
    LET result == Wrap8(r.a + value)
    IN  [r EXCEPT !.a = result,
                  !.f = [zero |-> result = 0, subtract |-> FALSE,
                         half_carry |-> r.a + value > 255,
                         carry |-> r.a + value > 255]]

alu_add(r, value) ==
    LET result == Wrap8(r.a + value)
        did_overflow == r.a + value > 255
    IN  [r EXCEPT !.a = result,
                  !.f = [zero |-> result = 0, subtract |-> FALSE,
                         half_carry |-> (r.a % 16) + (value % 16) > 15,
                         carry |-> did_overflow]]

alu_adc(r, value) ==
    LET carry == IF r.f.carry THEN 1 ELSE 0
        result == Wrap8(Wrap8(r.a + value) + carry)
    IN  [r EXCEPT !.a = result,
                  !.f = [zero |-> result = 0, subtract |-> FALSE,
                         half_carry |-> (r.a % 16) + (value % 16) + carry > 15,
                         carry |-> r.a + value + carry > 255]]

alu_and(r, value) ==
    LET result == And8(r.a, value)
    IN  [r EXCEPT !.a = result,
                  !.f = [zero |-> result = 0, subtract |-> FALSE,
                         half_carry |-> TRUE, carry |-> FALSE]]

alu_cp(r, value) ==
    LET result == Wrap8(r.a - value)
    IN  [r EXCEPT !.f = [zero |-> result = 0, subtract |-> TRUE,
                         half_carry |-> (r.a % 16) < (value % 16),
                         carry |-> r.a < value]]

alu_or(r, value) ==
    LET result == Or8(r.a, value)
    IN  [r EXCEPT !.a = result,
                  !.f = [zero |-> result = 0, subtract |-> FALSE,
                         half_carry |-> FALSE, carry |-> FALSE]]

alu_sbc(r, value) ==
    LET carry == IF r.f.carry THEN 1 ELSE 0
        result == Wrap8(Wrap8(r.a - value) - carry)
    IN  [r EXCEPT !.a = result,
                  !.f = [zero |-> result = 0, subtract |-> TRUE,
                         half_carry |-> (r.a % 16) < (value % 16) + carry,
                         carry |-> r.a < value + carry]]

alu_sub(r, value) ==
    LET result == Wrap8(r.a - value)
        did_overflow == r.a < value
    IN  [r EXCEPT !.a = result,
                  !.f = [zero |-> result = 0, subtract |-> TRUE,
                         half_carry |-> (r.a % 16) < (value % 16),
                         carry |-> did_overflow]]

alu_xor(r, value) ==
    LET result == Xor8(r.a, value)
    IN  [r EXCEPT !.a = result,
                  !.f = [zero |-> result = 0, subtract |-> FALSE,
                         half_carry |-> FALSE, carry |-> FALSE]]

(***************************************************************************)
(* Arrays that start zeroed (working RAM, high RAM, video RAM, OAM) are    *)
(* kept as functions whose domain holds exactly the non-zero cells.        *)
(***************************************************************************)
ZeroArray == <<>>

ArrayGet(arr, k) == IF k \in DOMAIN arr THEN arr[k] ELSE 0

ArrayPut(arr, k, v) ==
    IF v = 0
    THEN [x \in (DOMAIN arr) \ {k} |-> arr[x]]
    ELSE [x \in (DOMAIN arr) \cup {k} |-> IF x = k THEN v ELSE arr[x]]

(***************************************************************************)
(* Timer (mmu/timer.rs)                                                    *)
(***************************************************************************)
TimerNew ==
    [divider |-> 0, counter |-> 0, modulo |-> 0, enabled |-> FALSE, step |-> 1024,
     internal_counter |-> 0, internal_divider |-> 0, interrupt |-> 0]

TimerReadByte(t, a) ==
    CASE a = \hFF04 -> t.divider
      [] a = \hFF05 -> t.counter
      [] a = \hFF06 -> t.modulo
      [] OTHER -> 248 + (IF t.enabled THEN 4 ELSE 0)
                      + (CASE t.step = 16 -> 1 [] t.step = 64 -> 2
                           [] t.step = 256 -> 3 [] OTHER -> 0)

TimerWriteByte(t, a, v) ==
    CASE a = \hFF04 -> [t EXCEPT !.divider = 0]
      [] a = \hFF05 -> [t EXCEPT !.counter = v]
      [] a = \hFF06 -> [t EXCEPT !.modulo = v]
      [] OTHER -> [t EXCEPT !.enabled = IsSet(v, 2),
                            !.step = CASE v % 4 = 1 -> 16 [] v % 4 = 2 -> 64
                                       [] v % 4 = 3 -> 256 [] OTHER -> 1024]

\* while self.internal_divider >= 256 { ... }
RECURSIVE TimerDividerLoop(_)
TimerDividerLoop(t) ==
    IF t.internal_divider >= 256
    THEN TimerDividerLoop([t EXCEPT !.divider = Wrap8(t.divider + 1),
                                    !.internal_divider = t.internal_divider - 256])
    ELSE t

\* while self.internal_counter >= self.step { ... }
RECURSIVE TimerCounterLoop(_)
TimerCounterLoop(t) ==
    IF t.internal_counter >= t.step
    THEN LET c == Wrap8(t.counter + 1)
         IN  TimerCounterLoop(
                 [t EXCEPT !.counter = IF c = 0 THEN t.modulo ELSE c,
                           !.interrupt = IF c = 0 THEN Or8(t.interrupt, 4) ELSE t.interrupt,
                           !.internal_counter = t.internal_counter - t.step])
    ELSE t

\* a plausible slip: only the divider advances, the counter is left alone
TimerStepDividerOnly(t, ticks) ==
    TimerDividerLoop([t EXCEPT !.internal_divider = t.internal_divider + ticks])

TimerStep(t, ticks) ==
    LET t1 == TimerDividerLoop([t EXCEPT !.internal_divider = t.internal_divider + ticks])
    IN  IF t1.enabled
        THEN TimerCounterLoop([t1 EXCEPT !.internal_counter = t1.internal_counter + ticks])
        ELSE t1

(***************************************************************************)
(* Audio sink (audio.rs): the sample buffer shared, under a mutex, by the  *)
(* producer (CpalPlayer::play) and the output-device callback              *)
(* (cpal_thread).  A stereo pair is named by its sequence number.          *)
(* lock is the holder of the mutex, pending the pairs the running play     *)
(* call has still to offer, out the pairs handed to the device.            *)
(***************************************************************************)
AudioNew ==
    [buffer |-> <<>>, lock |-> "free", pending |-> <<>>, offered |-> 0,
     accepted |-> <<>>, dropped |-> 0, out |-> <<>>]

\* a plausible slip: the loop pushes without looking at the buffer length
PlayPairUnbounded(a, sample_rate) ==
    [a EXCEPT !.buffer = Append(a.buffer, Head(a.pending)),
              !.accepted = Append(a.accepted, Head(a.pending)),
              !.pending = Tail(a.pending),
              !.lock = IF Len(a.pending) = 1 THEN "free" ELSE "play"]

\* one turn of the loop of CpalPlayer::play: a full buffer ends the call,
\* which drops the pair and those after it; play returns, releasing the
\* mutex, when the pairs are used up
PlayPair(a, sample_rate) ==
    IF Len(a.buffer) > sample_rate
    THEN [a EXCEPT !.pending = <<>>, !.dropped = a.dropped + Len(a.pending),
                   !.lock = "free"]
    ELSE [a EXCEPT !.buffer = Append(a.buffer, Head(a.pending)),
                   !.accepted = Append(a.accepted, Head(a.pending)),
                   !.pending = Tail(a.pending),
                   !.lock = IF Len(a.pending) = 1 THEN "free" ELSE "play"]

\* cpal_thread, which holds the mutex from its first statement to its last:
\* min(outbuffer.len() / 2, inbuffer.len()) pairs are drained from the front
\* of the buffer into the device's slice, in order
cpal_thread(a, outbuffer_len) ==
    LET outlen == IF outbuffer_len \div 2 < Len(a.buffer)
                  THEN outbuffer_len \div 2 ELSE Len(a.buffer)
    IN  [a EXCEPT !.buffer = SubSeq(a.buffer, outlen + 1, Len(a.buffer)),
                  !.out = a.out \o SubSeq(a.buffer, 1, outlen)]

(***************************************************************************)
(* Joypad (io/joypad.rs)                                                   *)
(***************************************************************************)
JoypadNew ==
    [selected |-> "Buttons", start |-> FALSE, select |-> FALSE, b |-> FALSE, a |-> FALSE,
     down |-> FALSE, up |-> FALSE, left |-> FALSE, right |-> FALSE]

JoypadWriteByte(j, byte) ==
    LET button_selected == ~IsSet(byte, 5)
        dpad_selected == ~IsSet(byte, 4)
    IN  [j EXCEPT !.selected =
            IF button_selected /\ dpad_selected THEN "Both"
            ELSE IF button_selected THEN "Buttons"
            ELSE IF dpad_selected THEN "DPad"
            ELSE "None"]

\* a plausible slip: the two selections return each other's buttons
JoypadReadByteSwapped(j) ==
    LET buttons == Bit01(~j.start) * 8 + Bit01(~j.select) * 4 + Bit01(~j.b) * 2 + Bit01(~j.a)
        dpad == Bit01(~j.down) * 8 + Bit01(~j.up) * 4 + Bit01(~j.left) * 2 + Bit01(~j.right)
    IN  CASE j.selected = "Buttons" -> 208 + dpad
          [] j.selected = "DPad" -> 224 + buttons
          [] j.selected = "Both" -> Or8(192 + buttons, dpad)
          [] OTHER -> 255

JoypadReadByte(j) ==
    LET buttons == Bit01(~j.start) * 8 + Bit01(~j.select) * 4 + Bit01(~j.b) * 2 + Bit01(~j.a)
        dpad == Bit01(~j.down) * 8 + Bit01(~j.up) * 4 + Bit01(~j.left) * 2 + Bit01(~j.right)
    IN  CASE j.selected = "Buttons" -> 208 + buttons
          [] j.selected = "DPad" -> 224 + dpad
          [] j.selected = "Both" -> Or8(192 + buttons, dpad)
          [] OTHER -> 255

\* the boot overlay image
BOOT_ROM ==
    <<
      49, 254, 255, 175, 33, 255, 159, 50, 203, 124, 32, 251, 33, 38, 255, 14,
      17, 62, 128, 50, 226, 12, 62, 243, 226, 50, 62, 119, 119, 62, 252, 224,
      71, 17, 4, 1, 33, 16, 128, 26, 205, 149, 0, 205, 150, 0, 19, 123,
      254, 52, 32, 243, 17, 216, 0, 6, 8, 26, 19, 34, 35, 5, 32, 249,
      62, 25, 234, 16, 153, 33, 47, 153, 14, 12, 61, 40, 8, 50, 13, 32,
      249, 46, 15, 24, 243, 103, 62, 100, 87, 224, 66, 62, 145, 224, 64, 4,
      30, 2, 14, 12, 240, 68, 254, 144, 32, 250, 13, 32, 247, 29, 32, 242,
      14, 19, 36, 124, 30, 131, 254, 98, 40, 6, 30, 193, 254, 100, 32, 6,
      123, 226, 12, 62, 135, 226, 240, 66, 144, 224, 66, 21, 32, 210, 5, 32,
      79, 22, 32, 24, 203, 79, 6, 4, 197, 203, 17, 23, 193, 203, 17, 23,
      5, 32, 245, 34, 35, 34, 35, 201, 206, 237, 102, 102, 204, 13, 0, 11,
      3, 115, 0, 131, 0, 12, 0, 13, 0, 8, 17, 31, 136, 137, 0, 14,
      220, 204, 110, 230, 221, 221, 217, 153, 187, 187, 103, 99, 110, 14, 236, 204,
      221, 220, 153, 159, 187, 185, 51, 62, 60, 66, 185, 165, 185, 165, 66, 60,
      33, 4, 1, 17, 168, 0, 26, 19, 190, 32, 254, 35, 125, 254, 52, 32,
      245, 6, 25, 120, 134, 35, 5, 32, 251, 134, 32, 254, 62, 1, 224, 80
    >>

(***************************************************************************)
(* Pixel unit (ppu/mod.rs): registers and the mode state machine.  The     *)
(* frame buffer is kept per scanline: fill is the byte every untouched     *)
(* line holds (0 after construction, 255 after clear_screen) and drawn is  *)
(* the set of lines render_scanline has written since.                     *)
(***************************************************************************)
PpuNew(gb_mode) ==
    [vram |-> ZeroArray, oam |-> ZeroArray, selected_vram_bank |-> FALSE,
     lcd_on |-> FALSE, win_tilemap |-> \h9C00, win_enabled |-> FALSE,
     tile_data_addr |-> \h8000, bg_tilemap_addr |-> \h9C00, sprite_size |-> 8,
     sprite_enabled |-> FALSE, bg_enabled |-> FALSE,
     lyc_interrupt |-> FALSE, mode_2_interrupt |-> FALSE,
     mode_1_interrupt |-> FALSE, mode_0_interrupt |-> FALSE,
     ly |-> 0, lyc |-> 0, mode |-> 0, scy |-> 0, scx |-> 0,
     bg_palette |-> 0, obj_palette0 |-> 0, obj_palette1 |-> 0, winy |-> 0, winx |-> 0,
     cbg_palette_auto_increment |-> FALSE, cbg_palette_index |-> 0, cbg_palette |-> ZeroArray,
     cobj_palette_auto_increment |-> FALSE, cobj_palette_index |-> 0, cobj_palette |-> ZeroArray,
     wy_trigger |-> FALSE, wy_pos |-> 0, interrupt |-> 0, hblank |-> FALSE, dots |-> 0,
     screen_buffer |-> [fill |-> 0, drawn |-> {}], screen_buffer_updated |-> FALSE,
     gb_mode |-> gb_mode]

\* a plausible slip: the line compare raises the bit whether or not it is enabled
check_lyc_interruptAlways(p) ==
    IF p.ly = p.lyc THEN [p EXCEPT !.interrupt = Or8(p.interrupt, 2)] ELSE p

check_lyc_interrupt(p) ==
    IF p.lyc_interrupt /\ p.ly = p.lyc
    THEN [p EXCEPT !.interrupt = Or8(p.interrupt, 2)]
    ELSE p

\* render_scanline: the line is painted, and draw_bg advances the window line
render_scanline(p) ==
    [p EXCEPT !.screen_buffer.drawn = p.screen_buffer.drawn \cup {p.ly},
              !.wy_pos = IF p.win_enabled /\ p.wy_trigger /\ p.winx <= 166
                         THEN p.wy_pos + 1 ELSE p.wy_pos]

clear_screen(p) == [p EXCEPT !.screen_buffer = [fill |-> 255, drawn |-> {}]]

change_mode(p, mode) ==
    LET p0 == [p EXCEPT !.mode = mode]
    IN  CASE mode = 0 ->
               LET p1 == [render_scanline(p0) EXCEPT !.hblank = TRUE]
               IN  IF p1.mode_0_interrupt
                   THEN [p1 EXCEPT !.interrupt = Or8(p1.interrupt, 2)] ELSE p1
          [] mode = 1 ->
               LET p1 == [p0 EXCEPT !.wy_trigger = FALSE, !.interrupt = Or8(p0.interrupt, 1)]
                   p2 == IF p1.mode_1_interrupt
                         THEN [p1 EXCEPT !.interrupt = Or8(p1.interrupt, 2)] ELSE p1
               IN  [p2 EXCEPT !.screen_buffer_updated = TRUE]
          [] mode = 2 ->
               IF p0.mode_2_interrupt
               THEN [p0 EXCEPT !.interrupt = Or8(p0.interrupt, 2)] ELSE p0
          [] OTHER ->
               IF p0.win_enabled /\ ~p0.wy_trigger /\ p0.ly = p0.winy
               THEN [p0 EXCEPT !.wy_trigger = TRUE, !.wy_pos = -1] ELSE p0

\* a plausible slip: the cycles of a call are taken in one piece
MinUncapped(x, y) == x

\* cycles_left.min(80)
Min(x, y) == IF x < y THEN x ELSE y

\* a plausible slip: vertical blank entered again on every line from 144 on
PpuStepChunkEveryLine(p, current_cycles) ==
    LET p1 == [p EXCEPT !.dots = p.dots + current_cycles]
        p2 == IF p1.dots >= 456
              THEN LET q1 == check_lyc_interrupt(
                                 [p1 EXCEPT !.dots = p1.dots - 456,
                                            !.ly = (p1.ly + 1) % 154])
                   IN  IF q1.ly >= 144 THEN change_mode(q1, 1) ELSE q1
              ELSE p1
    IN  IF p2.ly < 144
        THEN IF p2.dots <= 80
             THEN (IF p2.mode # 2 THEN change_mode(p2, 2) ELSE p2)
             ELSE IF p2.dots <= 252
             THEN (IF p2.mode # 3 THEN change_mode(p2, 3) ELSE p2)
             ELSE (IF p2.mode # 0 THEN change_mode(p2, 0) ELSE p2)
        ELSE p2

\* one iteration of the while loop of step(): at most 80 dots at a time
PpuStepChunk(p, current_cycles) ==
    LET p1 == [p EXCEPT !.dots = p.dots + current_cycles]
        p2 == IF p1.dots >= 456
              THEN LET q1 == check_lyc_interrupt(
                                 [p1 EXCEPT !.dots = p1.dots - 456,
                                            !.ly = (p1.ly + 1) % 154])
                   IN  IF q1.ly >= 144 /\ q1.mode # 1 THEN change_mode(q1, 1) ELSE q1
              ELSE p1
    IN  IF p2.ly < 144
        THEN IF p2.dots <= 80
             THEN (IF p2.mode # 2 THEN change_mode(p2, 2) ELSE p2)
             ELSE IF p2.dots <= 252
             THEN (IF p2.mode # 3 THEN change_mode(p2, 3) ELSE p2)
             ELSE (IF p2.mode # 0 THEN change_mode(p2, 0) ELSE p2)
        ELSE p2

RECURSIVE PpuStepLoop(_, _)
PpuStepLoop(p, cycles_left) ==
    IF cycles_left > 0
    THEN LET current_cycles == Min(cycles_left, 80)
         IN  PpuStepLoop(PpuStepChunk(p, current_cycles), cycles_left - current_cycles)
    ELSE p

PpuStep(p, cycles) ==
    IF ~p.lcd_on THEN p ELSE PpuStepLoop([p EXCEPT !.hblank = FALSE], cycles)

VramBank(p) == IF p.selected_vram_bank THEN 1 ELSE 0

read_vram(p, addr) == ArrayGet(p.vram, <<VramBank(p), addr>>)
write_vram(p, addr, value) == [p EXCEPT !.vram = ArrayPut(p.vram, <<VramBank(p), addr>>, value)]

read_oam(p, addr) == ArrayGet(p.oam, addr)
write_oam(p, addr, value) == [p EXCEPT !.oam = ArrayPut(p.oam, addr, value)]

\* the two bytes of a colour palette entry, as read back through 0xFF69/0xFF6B
PaletteRead(pal, index) ==
    LET palette_num == index \div 8
        color_num == (index \div 2) % 4
        c(k) == ArrayGet(pal, <<palette_num, color_num, k>>)
    IN  IF index % 2 = 0
        THEN Wrap8(Or8(c(0), (c(1) % 8) * 32))
        ELSE Wrap8(Or8(And8(c(1), 24) \div 8, Wrap8(c(2) * 4)))

\* the palette after a write through 0xFF69/0xFF6B
PaletteWrite(pal, index, value) ==
    LET palette_num == index \div 8
        color_num == (index \div 2) % 4
        k(n) == <<palette_num, color_num, n>>
    IN  IF index % 2 = 0
        THEN ArrayPut(ArrayPut(pal, k(0), value % 32),
                      k(1), Or8(And8(ArrayGet(pal, k(1)), 24), value \div 32))
        ELSE ArrayPut(ArrayPut(pal, k(1), Or8(ArrayGet(pal, k(1)) % 8, (value % 4) * 8)),
                      k(2), (value \div 4) % 32)

PpuReadRegister(p, addr) ==
    CASE addr = \hFF40 ->
             BitAt(p.lcd_on, 7) + BitAt(p.win_tilemap = \h9C00, 6) + BitAt(p.win_enabled, 5)
               + BitAt(p.tile_data_addr = \h8000, 4) + BitAt(p.bg_tilemap_addr = \h9C00, 3)
               + BitAt(p.sprite_size = 16, 2) + BitAt(p.sprite_enabled, 1)
               + BitAt(p.bg_enabled, 0)
      [] addr = \hFF41 ->
             Or8(128 + BitAt(p.lyc_interrupt, 6) + BitAt(p.mode_2_interrupt, 5)
                   + BitAt(p.mode_1_interrupt, 4) + BitAt(p.mode_0_interrupt, 3)
                   + BitAt(p.ly = p.lyc, 2), p.mode)
      [] addr = \hFF42 -> p.scy
      [] addr = \hFF43 -> p.scx
      [] addr = \hFF44 -> p.ly
      [] addr = \hFF45 -> p.lyc
      [] addr = \hFF46 -> 0
      [] addr = \hFF47 -> p.bg_palette
      [] addr = \hFF48 -> p.obj_palette0
      [] addr = \hFF49 -> p.obj_palette1
      [] addr = \hFF4A -> p.winy
      [] addr = \hFF4B -> p.winx
      [] addr >= \hFF4F /\ p.gb_mode # "Color" -> 255
      [] addr = \hFF68 -> Or8(BitAt(p.cbg_palette_auto_increment, 7) + 64, p.cbg_palette_index)
      [] addr = \hFF69 -> PaletteRead(p.cbg_palette, p.cbg_palette_index)
      [] addr = \hFF6A -> Or8(BitAt(p.cobj_palette_auto_increment, 7) + 64, p.cobj_palette_index)
      [] OTHER -> PaletteRead(p.cobj_palette, p.cobj_palette_index)

\* write_register panics on 0xFF46
PpuWritePanics(addr) == addr = \hFF46

\* a plausible slip: turning the display off leaves the dot counter running
PpuWriteLcdcKeepsDots(p, value) ==
    LET orig_lcd_on == p.lcd_on
        p1 == [p EXCEPT !.lcd_on = IsSet(value, 7),
                        !.win_tilemap = IF IsSet(value, 6) THEN \h9C00 ELSE \h9800,
                        !.win_enabled = IsSet(value, 5),
                        !.tile_data_addr = IF IsSet(value, 4) THEN \h8000 ELSE \h8800,
                        !.bg_tilemap_addr = IF IsSet(value, 3) THEN \h9C00 ELSE \h9800,
                        !.sprite_size = IF IsSet(value, 2) THEN 16 ELSE 8,
                        !.sprite_enabled = IsSet(value, 1),
                        !.bg_enabled = IsSet(value, 0)]
        p2 == IF orig_lcd_on /\ ~p1.lcd_on
              THEN clear_screen([p1 EXCEPT !.ly = 0, !.mode = 0, !.wy_trigger = FALSE])
              ELSE p1
    IN  IF ~orig_lcd_on /\ p2.lcd_on
        THEN [change_mode(p2, 2) EXCEPT !.dots = 4]
        ELSE p2

PpuWriteLcdc(p, value) ==
    LET orig_lcd_on == p.lcd_on
        p1 == [p EXCEPT !.lcd_on = IsSet(value, 7),
                        !.win_tilemap = IF IsSet(value, 6) THEN \h9C00 ELSE \h9800,
                        !.win_enabled = IsSet(value, 5),
                        !.tile_data_addr = IF IsSet(value, 4) THEN \h8000 ELSE \h8800,
                        !.bg_tilemap_addr = IF IsSet(value, 3) THEN \h9C00 ELSE \h9800,
                        !.sprite_size = IF IsSet(value, 2) THEN 16 ELSE 8,
                        !.sprite_enabled = IsSet(value, 1),
                        !.bg_enabled = IsSet(value, 0)]
        p2 == IF orig_lcd_on /\ ~p1.lcd_on
              THEN clear_screen([p1 EXCEPT !.dots = 0, !.ly = 0, !.mode = 0,
                                           !.wy_trigger = FALSE])
              ELSE p1
    IN  IF ~orig_lcd_on /\ p2.lcd_on
        THEN [change_mode(p2, 2) EXCEPT !.dots = 4]
        ELSE p2

PpuWriteRegister(p, addr, value) ==
    CASE addr = \hFF40 -> PpuWriteLcdc(p, value)
      [] addr = \hFF41 ->
             [p EXCEPT !.lyc_interrupt = IsSet(value, 6), !.mode_2_interrupt = IsSet(value, 5),
                       !.mode_1_interrupt = IsSet(value, 4), !.mode_0_interrupt = IsSet(value, 3)]
      [] addr = \hFF42 -> [p EXCEPT !.scy = value]
      [] addr = \hFF43 -> [p EXCEPT !.scx = value]
      [] addr = \hFF44 -> p
      [] addr = \hFF45 -> check_lyc_interrupt([p EXCEPT !.lyc = value])
      [] addr = \hFF46 -> p
      [] addr = \hFF47 -> [p EXCEPT !.bg_palette = value]
      [] addr = \hFF48 -> [p EXCEPT !.obj_palette0 = value]
      [] addr = \hFF49 -> [p EXCEPT !.obj_palette1 = value]
      [] addr = \hFF4A -> [p EXCEPT !.winy = value]
      [] addr = \hFF4B -> [p EXCEPT !.winx = value]
      [] addr >= \hFF4F /\ p.gb_mode # "Color" -> p
      [] addr = \hFF68 ->
             [p EXCEPT !.cbg_palette_index = value % 64,
                       !.cbg_palette_auto_increment = IsSet(value, 7)]
      [] addr = \hFF69 ->
             [p EXCEPT !.cbg_palette = PaletteWrite(p.cbg_palette, p.cbg_palette_index, value),
                       !.cbg_palette_index = IF p.cbg_palette_auto_increment
                                             THEN (p.cbg_palette_index + 1) % 64
                                             ELSE p.cbg_palette_index]
      [] addr = \hFF6A ->
             [p EXCEPT !.cobj_palette_index = value % 64,
                       !.cobj_palette_auto_increment = IsSet(value, 7)]
      [] OTHER ->
             [p EXCEPT !.cobj_palette = PaletteWrite(p.cobj_palette, p.cobj_palette_index, value),
                       !.cobj_palette_index = IF p.cobj_palette_auto_increment
                                              THEN (p.cobj_palette_index + 1) % 64
                                              ELSE p.cobj_palette_index]

(***************************************************************************)
(* Bank controllers (mbc/mod.rs, mbc0.rs, mbc1.rs, mbc3.rs).  One record   *)
(* shape serves the three controllers; kind tells them apart.  rom and ram *)
(* are zero-initialised arrays, ram_len is ram.len().  fault records a     *)
(* panic inside the controller.                                            *)
(***************************************************************************)
ram_bank_count(code) ==
    CASE code = 1 -> 1 [] code = 2 -> 2 [] code = 3 -> 4
      [] code = 4 -> 16 [] code = 5 -> 8 [] OTHER -> 0

rom_bank_count(code) ==
    CASE code = 0 -> 2 [] code = 1 -> 4 [] code = 2 -> 8 [] code = 3 -> 16
      [] code = 4 -> 32 [] code = 5 -> 64 [] code = 6 -> 128
      [] code = 82 -> 72 [] code = 83 -> 80 [] code = 84 -> 96 [] OTHER -> 0

\* MBC0::new, MBC1::new, MBC3::new: only the clock-bearing controller starts
\* enabled.  rom_len is rom.len(): the image holds the banks its header declares.
MbcNew(kind, rom_code, ram_code) ==
    [kind |-> kind, rom |-> ZeroArray, rom_len |-> rom_bank_count(rom_code) * \h4000,
     ram |-> ZeroArray,
     ram_len |-> IF kind = "MBC0" THEN 0 ELSE ram_bank_count(ram_code) * \h2000,
     ram_enabled |-> kind = "MBC3",
     selected_rom_bank |-> IF kind = "MBC0" THEN 0 ELSE 1,
     selected_ram_bank |-> 0,
     ram_bank_count |-> IF kind = "MBC0" THEN 0 ELSE ram_bank_count(ram_code),
     rom_bank_count |-> IF kind = "MBC1" THEN rom_bank_count(rom_code) ELSE 0,
     banking_mode |-> 0, has_battery |-> FALSE, rtc_selected |-> FALSE,
     save_file |-> [state |-> "missing", len |-> 0, bytes |-> ZeroArray],
     rtc_ram |-> <<0, 0, 0, 0, 0>>, rtc_ram_latch |-> <<0, 0, 0, 0, 0>>,
     fault |-> FALSE]

\* MBC1::read_ram: the index is not compared with ram.len()
Mbc1RamIndex(c, address) ==
    (IF c.banking_mode = 1 THEN c.selected_ram_bank ELSE 0) * \h2000 + (address % \h2000)

Mbc1ReadRamPanics(c, address) == c.ram_enabled /\ Mbc1RamIndex(c, address) >= c.ram_len

Mbc1ReadRam(c, address) ==
    IF ~c.ram_enabled THEN 255 ELSE ArrayGet(c.ram, Mbc1RamIndex(c, address))

\* MBC1::write_ram: the bound is ram.len() as u16
Mbc1WriteRam(c, address, value) ==
    IF c.ram_enabled /\ Wrap16(Mbc1RamIndex(c, address)) < Wrap16(c.ram_len)
    THEN [c EXCEPT !.ram = ArrayPut(c.ram, Wrap16(Mbc1RamIndex(c, address)), value)]
    ELSE c

\* MBC1::write_rom; value & 0x03 % n parses as value & (0x03 % n)
Mbc1WriteRom(c, address, value) ==
    CASE InRange(address, \h0000, \h1FFF) -> [c EXCEPT !.ram_enabled = (value % 16) = 10]
      [] InRange(address, \h2000, \h3FFF) ->
             LET lower_bits == IF (value % 32) = 0 THEN 1 ELSE value % 32
             IN  IF c.rom_bank_count = 0
                 THEN [c EXCEPT !.fault = TRUE]
                 ELSE [c EXCEPT !.selected_rom_bank =
                           Or8(And8(c.selected_rom_bank, 96), lower_bits) % c.rom_bank_count]
      [] InRange(address, \h4000, \h5FFF) ->
             LET upper_bits == And8(value, 3 % (c.rom_bank_count \div 32))
                 c1 == IF c.rom_bank_count > 32
                       THEN [c EXCEPT !.selected_rom_bank =
                                Or8(And8(c.selected_rom_bank, 31), Wrap8(upper_bits * 32))]
                       ELSE c
             IN  IF c.rom_bank_count > 1
                 THEN [c1 EXCEPT !.selected_rom_bank = value % 4]
                 ELSE c1
      [] InRange(address, \h6000, \h7FFF) -> [c EXCEPT !.banking_mode = value % 2]
      [] OTHER -> [c EXCEPT !.fault = TRUE]

Mbc1ReadRom(c, address) ==
    LET bank == IF address < \h4000
                THEN (IF c.banking_mode = 0 THEN 0 ELSE And8(c.selected_rom_bank, 224))
                ELSE c.selected_rom_bank
        idx == bank * \h4000 + (address % \h4000)
    IN  IF idx < c.rom_len THEN ArrayGet(c.rom, idx) ELSE 255

\* MBC3: rtc_zero is None from construction on and calc_rtc_zero keeps it None,
\* so calc_rtc_reg never alters the clock registers and latching is a copy
Mbc3RamSelected(c) == ~c.rtc_selected /\ c.selected_ram_bank < c.ram_bank_count

Mbc3RtcSelected(c) == c.rtc_selected /\ c.selected_ram_bank < 5

Mbc3ReadRam(c, address) ==
    CASE ~c.ram_enabled -> 255
      [] Mbc3RamSelected(c) -> ArrayGet(c.ram, c.selected_ram_bank * \h2000 + (address % \h2000))
      [] Mbc3RtcSelected(c) -> c.rtc_ram_latch[c.selected_ram_bank + 1]
      [] OTHER -> 255

Mbc3WriteRam(c, address, value) ==
    CASE ~c.ram_enabled -> c
      [] Mbc3RamSelected(c) ->
             [c EXCEPT !.ram = ArrayPut(c.ram, c.selected_ram_bank * \h2000 + (address % \h2000), value)]
      [] Mbc3RtcSelected(c) ->
             LET mask == CASE c.selected_ram_bank \in {0, 1} -> 63
                           [] c.selected_ram_bank = 2 -> 31
                           [] c.selected_ram_bank = 4 -> 193
                           [] OTHER -> 255
             IN  [c EXCEPT !.rtc_ram[c.selected_ram_bank + 1] = And8(value, mask)]
      [] OTHER -> c

\* a plausible slip: the bank number is stored as written, zero included
Mbc3WriteRomZeroKept(c, address, value) ==
    CASE InRange(address, \h0000, \h1FFF) -> [c EXCEPT !.ram_enabled = (value % 16) = 10]
      [] InRange(address, \h2000, \h3FFF) -> [c EXCEPT !.selected_rom_bank = value % 128]
      [] InRange(address, \h4000, \h5FFF) ->
             [c EXCEPT !.rtc_selected = IsSet(value, 3), !.selected_ram_bank = value % 8]
      [] InRange(address, \h6000, \h7FFF) -> [c EXCEPT !.rtc_ram_latch = c.rtc_ram]
      [] OTHER -> [c EXCEPT !.fault = TRUE]

Mbc3WriteRom(c, address, value) ==
    CASE InRange(address, \h0000, \h1FFF) -> [c EXCEPT !.ram_enabled = (value % 16) = 10]
      [] InRange(address, \h2000, \h3FFF) ->
             [c EXCEPT !.selected_rom_bank = IF (value % 128) = 0 THEN 1 ELSE value % 128]
      [] InRange(address, \h4000, \h5FFF) ->
             [c EXCEPT !.rtc_selected = IsSet(value, 3), !.selected_ram_bank = value % 8]
      [] InRange(address, \h6000, \h7FFF) -> [c EXCEPT !.rtc_ram_latch = c.rtc_ram]
      [] OTHER -> [c EXCEPT !.fault = TRUE]

Mbc3ReadRom(c, address) ==
    LET index == IF address < \h4000 THEN address
                 ELSE c.selected_rom_bank * \h4000 + (address % \h4000)
    IN  IF index < c.rom_len THEN ArrayGet(c.rom, index) ELSE 255

(***************************************************************************)
(* Cartridge as the bus sees it (cartridge.rs): every call is forwarded to *)
(* the controller built by new_mbc.  The image bytes that are not          *)
(* instructions read as 0.                                                 *)
(***************************************************************************)
CartridgeNew == MbcNew("MBC0", 0, 0)

\* new_mbc: the controller is chosen by header byte 0x147; any other type panics.
\* MBC1::new sets has_battery for type 0x03 only; MBC0::has_battery is false
new_mbc(type, rom_code, ram_code) ==
    CASE type = 0 -> MbcNew("MBC0", rom_code, ram_code)
      [] type \in {1, 2} -> MbcNew("MBC1", rom_code, ram_code)
      [] type = 3 -> [MbcNew("MBC1", rom_code, ram_code) EXCEPT !.has_battery = TRUE]
      [] type \in {15, 16, 17, 18, 19} -> MbcNew("MBC3", rom_code, ram_code)
      [] OTHER -> [MbcNew("MBC0", rom_code, ram_code) EXCEPT !.fault = TRUE]

\* MBC::dump_ram: a copy of the RAM vector (MBC0 has none); a byte vector is
\* its length with its non-zero cells
dump_ram(c) ==
    IF c.kind = "MBC0"
    THEN [len |-> 0, bytes |-> ZeroArray]
    ELSE [len |-> c.ram_len, bytes |-> c.ram]

\* a plausible slip: the loaded vector replaces the RAM whatever its length
load_ramAnyLength(c, data) ==
    CASE c.kind = "MBC1" -> [ok |-> TRUE, mbc |-> [c EXCEPT !.ram = data.bytes]]
      [] c.kind = "MBC0" -> [ok |-> TRUE, mbc |-> c]

\* MBC::load_ram: MBC1 rejects a vector whose length is not ram.len(), MBC0
\* ignores the vector; MBC3 has no load_ram in this source
load_ram(c, data) ==
    CASE c.kind = "MBC1" ->
             IF data.len # c.ram_len
             THEN [ok |-> FALSE, mbc |-> c]
             ELSE [ok |-> TRUE, mbc |-> [c EXCEPT !.ram = data.bytes]]
      [] c.kind = "MBC0" -> [ok |-> TRUE, mbc |-> c]

\* FileBackedMBC::new on the controller mbc built from the image: the save
\* file is opened only for a battery-backed controller; a file that is not
\* found is skipped, any other open or read failure is an error, and the
\* result of load_ram is propagated
FileBackedMBC_new(mbc, save) ==
    CASE ~mbc.has_battery -> [ok |-> TRUE, mbc |-> mbc]
      [] save.state = "missing" -> [ok |-> TRUE, mbc |-> mbc]
      [] save.state = "unreadable" -> [ok |-> FALSE, mbc |-> mbc]
      [] OTHER -> load_ram(mbc, save)

\* Drop for FileBackedMBC: a battery-backed controller writes dump_ram() to
\* the save file; when File::create fails nothing is written
drop(c, created) ==
    IF c.has_battery /\ created
    THEN [state |-> "data", len |-> dump_ram(c).len, bytes |-> dump_ram(c).bytes]
    ELSE c.save_file

CartridgeReadRom(c, address) ==
    CASE c.kind = "MBC1" -> Mbc1ReadRom(c, address)
      [] c.kind = "MBC3" -> Mbc3ReadRom(c, address)
      [] OTHER -> ArrayGet(c.rom, address)

CartridgeReadRamPanics(c, address) == c.kind = "MBC1" /\ Mbc1ReadRamPanics(c, address)

CartridgeReadRam(c, address) ==
    CASE c.kind = "MBC1" -> Mbc1ReadRam(c, address)
      [] c.kind = "MBC3" -> Mbc3ReadRam(c, address)
      [] OTHER -> 0

\* a plausible slip: the no-banking controller obeys bank-select writes
CartridgeWriteRomAlwaysBanked(c, address, value) ==
    CASE c.kind = "MBC1" -> Mbc1WriteRom(c, address, value)
      [] OTHER -> Mbc3WriteRom(c, address, value)

CartridgeWriteRom(c, address, value) ==
    CASE c.kind = "MBC1" -> Mbc1WriteRom(c, address, value)
      [] c.kind = "MBC3" -> Mbc3WriteRom(c, address, value)
      [] OTHER -> c

CartridgeWriteRam(c, address, value) ==
    CASE c.kind = "MBC1" -> Mbc1WriteRam(c, address, value)
      [] c.kind = "MBC3" -> Mbc3WriteRam(c, address, value)
      [] OTHER -> c

(***************************************************************************)
(* Memory-mapping unit (mmu/mod.rs).  fault records a panic of the         *)
(* running session (an out-of-range index or an explicit panic!).          *)
(***************************************************************************)
MmuNew(gb_mode) ==
    [cartridge |-> CartridgeNew, boot_rom |-> TRUE,
     wram |-> ZeroArray, hram |-> ZeroArray,
     hdma |-> <<0, 0, 0, 0>>, hdma_src |-> 0, hdma_dst |-> 0, hdma_len |-> 0,
     hdma_status |-> "NoDMA",
     selected_wram_bank |-> 1, interrupt_flags |-> 0, interrupt_enable |-> 0,
     joypad |-> JoypadNew, ppu |-> PpuNew(gb_mode), timer |-> TimerNew,
     fault |-> FALSE]

\* number of working-RAM banks: wram: [[u8; 0x1000]; 8]
WramBanks == 8

\* a plausible slip: the timer's local interrupt field is merged but not cleared
MmuStepKeepsLocal(m, cycles) ==
    LET t1 == TimerStep(m.timer, cycles)
        p1 == PpuStep(m.ppu, cycles)
    IN  [m EXCEPT !.timer = t1,
                  !.ppu = [p1 EXCEPT !.interrupt = 0],
                  !.interrupt_flags = Or8(Or8(m.interrupt_flags, t1.interrupt), p1.interrupt)]

MmuStep(m, cycles) ==
    LET t1 == TimerStep(m.timer, cycles)
        if1 == Or8(m.interrupt_flags, t1.interrupt)
        p1 == PpuStep(m.ppu, cycles)
        if2 == Or8(if1, p1.interrupt)
    IN  [m EXCEPT !.timer = [t1 EXCEPT !.interrupt = 0],
                  !.ppu = [p1 EXCEPT !.interrupt = 0],
                  !.interrupt_flags = if2]

\* a plausible slip: any pending bit counts, enabled or not
has_interruptAnyPending(m) == m.interrupt_flags # 0

has_interrupt(m) == And8(m.interrupt_flags, m.interrupt_enable) # 0

\* the reads that index out of range: wram[selected_wram_bank] beyond the 8 banks
ReadPanics(m, addr) ==
    \/ InRange(addr, \hD000, \hDFFF) /\ m.selected_wram_bank >= WramBanks
    \/ InRange(addr, \hA000, \hBFFF) /\ CartridgeReadRamPanics(m.cartridge, addr - \hA000)

ReadByteEcho(m, addr) ==
    LET bank == (addr - \hE000) \div \h1000
    IN  ArrayGet(m.wram, <<bank, (addr - \hE000) % \h1000>>)

\* a plausible slip: the overlay answers whether or not it was disabled
ReadByteBootAlways(m, addr) == BOOT_ROM[addr + 1]

\* the 0x0000..=0x00FF arm of read_byte
ReadByteBoot(m, addr) ==
    IF m.boot_rom THEN BOOT_ROM[addr + 1] ELSE CartridgeReadRom(m.cartridge, addr)

ReadByte(m, addr) ==
    CASE InRange(addr, \h0000, \h00FF) -> ReadByteBoot(m, addr)
      [] InRange(addr, \h0100, \h7FFF) -> CartridgeReadRom(m.cartridge, addr)
      [] InRange(addr, \h8000, \h9FFF) -> read_vram(m.ppu, addr - \h8000)
      [] InRange(addr, \hA000, \hBFFF) -> CartridgeReadRam(m.cartridge, addr - \hA000)
      [] InRange(addr, \hC000, \hCFFF) -> ArrayGet(m.wram, <<0, addr - \hC000>>)
      [] InRange(addr, \hD000, \hDFFF) ->
             ArrayGet(m.wram, <<m.selected_wram_bank, addr - \hD000>>)
      [] InRange(addr, \hE000, \hFDFF) -> ReadByteEcho(m, addr)
      [] InRange(addr, \hFE00, \hFE9F) -> read_oam(m.ppu, addr - \hFE00)
      [] InRange(addr, \hFEA0, \hFEFF) -> 0
      [] addr = \hFF00 -> JoypadReadByte(m.joypad)
      [] addr = \hFF01 -> 0
      [] addr = \hFF02 -> 0
      [] addr = \hFF03 -> 255
      [] InRange(addr, \hFF04, \hFF07) -> TimerReadByte(m.timer, addr)
      [] InRange(addr, \hFF08, \hFF0E) -> 255
      [] addr = \hFF0F -> m.interrupt_flags
      [] InRange(addr, \hFF10, \hFF3F) -> 0
      [] InRange(addr, \hFF40, \hFF4B) -> PpuReadRegister(m.ppu, addr)
      [] addr = \hFF4C -> 255
      [] addr = \hFF4D -> 0
      [] addr = \hFF4E -> 255
      [] addr = \hFF4F -> IF m.ppu.selected_vram_bank THEN 1 ELSE 0
      [] addr = \hFF50 -> 255
      [] InRange(addr, \hFF51, \hFF54) -> m.hdma[addr - \hFF51 + 1]
      [] addr = \hFF55 -> Or8(m.hdma_len, BitAt(m.hdma_status = "NoDMA", 7))
      [] addr = \hFF56 -> 0
      [] InRange(addr, \hFF57, \hFF67) -> 255
      [] InRange(addr, \hFF68, \hFF6B) -> PpuReadRegister(m.ppu, addr)
      [] addr = \hFF6C -> 0
      [] InRange(addr, \hFF6D, \hFF6F) -> 255
      [] addr = \hFF70 -> m.selected_wram_bank
      [] InRange(addr, \hFF71, \hFF75) -> 255
      [] InRange(addr, \hFF76, \hFF77) -> 0
      [] InRange(addr, \hFF78, \hFF7F) -> 255
      [] InRange(addr, \hFF80, \hFFFE) -> ArrayGet(m.hram, addr - \hFF80)
      [] OTHER -> m.interrupt_enable

\* a plausible slip: the refused window taken to be 0x8000-0xDFF0
WriteHdmaTriggerWideWindow(m, value) ==
    IF m.hdma_status = "HDMA"
    THEN (IF IsSet(value, 7) THEN [m EXCEPT !.hdma_status = "NoDMA"] ELSE m)
    ELSE LET src == m.hdma[1] * 256 + m.hdma[2]
             dst == Or8(m.hdma[3], 128) * 256 + m.hdma[4]
         IN  IF src >= \h8000 /\ src <= \hDFF0
             THEN [m EXCEPT !.fault = TRUE]
             ELSE [m EXCEPT !.hdma_src = src, !.hdma_dst = dst,
                            !.hdma_len = value % 128,
                            !.hdma_status = IF IsSet(value, 7) THEN "HDMA" ELSE "GDMA"]

\* the 0xFF55 arm of write_byte
WriteHdmaTrigger(m, value) ==
    IF m.hdma_status = "HDMA"
    THEN (IF IsSet(value, 7) THEN [m EXCEPT !.hdma_status = "NoDMA"] ELSE m)
    ELSE LET src == m.hdma[1] * 256 + m.hdma[2]
             dst == Or8(m.hdma[3], 128) * 256 + m.hdma[4]
         IN  IF src > \h7FF0 /\ (src < \hA000 \/ src > \hDFF0)
             THEN [m EXCEPT !.fault = TRUE]
             ELSE [m EXCEPT !.hdma_src = src, !.hdma_dst = dst,
                            !.hdma_len = value % 128,
                            !.hdma_status = IF IsSet(value, 7) THEN "HDMA" ELSE "GDMA"]

WriteByteWram(m, addr, value) ==
    IF m.selected_wram_bank >= WramBanks
    THEN [m EXCEPT !.fault = TRUE]
    ELSE [m EXCEPT !.wram = ArrayPut(m.wram, <<m.selected_wram_bank, addr - \hD000>>, value)]

WriteByteEcho(m, addr, value) ==
    LET bank == (addr - \hE000) \div \h1000
    IN  [m EXCEPT !.wram = ArrayPut(m.wram, <<bank, (addr - \hE000) % \h1000>>, value)]

WriteByte(m, addr, value) ==
    CASE InRange(addr, \h0000, \h3FFF) -> m
      [] InRange(addr, \h4000, \h7FFF) -> m
      [] InRange(addr, \h8000, \h9FFF) -> [m EXCEPT !.ppu = write_vram(m.ppu, addr - \h8000, value)]
      [] InRange(addr, \hA000, \hBFFF) -> m
      [] InRange(addr, \hC000, \hCFFF) ->
             [m EXCEPT !.wram = ArrayPut(m.wram, <<0, addr - \hC000>>, value)]
      [] InRange(addr, \hD000, \hDFFF) -> WriteByteWram(m, addr, value)
      [] InRange(addr, \hE000, \hFDFF) -> WriteByteEcho(m, addr, value)
      [] InRange(addr, \hFE00, \hFE9F) -> [m EXCEPT !.ppu = write_oam(m.ppu, addr - \hFE00, value)]
      [] InRange(addr, \hFEA0, \hFEFF) -> m
      [] addr = \hFF00 -> [m EXCEPT !.joypad = JoypadWriteByte(m.joypad, value)]
      [] InRange(addr, \hFF01, \hFF03) -> m
      [] InRange(addr, \hFF04, \hFF07) -> [m EXCEPT !.timer = TimerWriteByte(m.timer, addr, value)]
      [] InRange(addr, \hFF08, \hFF0E) -> m
      [] addr = \hFF0F -> [m EXCEPT !.interrupt_flags = value]
      [] InRange(addr, \hFF10, \hFF3F) -> m
      [] InRange(addr, \hFF40, \hFF4B) ->
             IF PpuWritePanics(addr)
             THEN [m EXCEPT !.fault = TRUE]
             ELSE [m EXCEPT !.ppu = PpuWriteRegister(m.ppu, addr, value)]
      [] InRange(addr, \hFF4C, \hFF4E) -> m
      [] addr = \hFF4F -> [m EXCEPT !.ppu.selected_vram_bank = value > 0]
      [] addr = \hFF50 -> [m EXCEPT !.boot_rom = FALSE]
      [] addr = \hFF51 -> [m EXCEPT !.hdma[1] = value]
      [] addr = \hFF52 -> [m EXCEPT !.hdma[2] = And8(value, 240)]
      [] addr = \hFF53 -> [m EXCEPT !.hdma[3] = And8(value, 31)]
      [] addr = \hFF54 -> [m EXCEPT !.hdma[4] = And8(value, 240)]
      [] addr = \hFF55 -> WriteHdmaTrigger(m, value)
      [] InRange(addr, \hFF56, \hFF67) -> m
      [] InRange(addr, \hFF68, \hFF6B) -> [m EXCEPT !.ppu = PpuWriteRegister(m.ppu, addr, value)]
      [] InRange(addr, \hFF6C, \hFF6F) -> m
      [] addr = \hFF70 -> [m EXCEPT !.selected_wram_bank = value]
      [] InRange(addr, \hFF71, \hFF7F) -> m
      [] InRange(addr, \hFF80, \hFFFE) -> [m EXCEPT !.hram = ArrayPut(m.hram, addr - \hFF80, value)]
      [] OTHER -> [m EXCEPT !.interrupt_enable = value]

\* perform_vram_dma_row: read_byte / write_byte for i in 0..0x10, then the
\* source and destination move on by 0x10 and the length counts down
RECURSIVE VramDmaRowLoop(_, _)
VramDmaRowLoop(m, i) ==
    IF i = 16 \/ m.fault
    THEN m
    ELSE IF ReadPanics(m, m.hdma_src + i)
         THEN [m EXCEPT !.fault = TRUE]
         ELSE VramDmaRowLoop(WriteByte(m, m.hdma_dst + i, ReadByte(m, m.hdma_src + i)), i + 1)

perform_vram_dma_row(m) ==
    LET m1 == VramDmaRowLoop(m, 0)
    IN  IF m1.fault
        THEN m1
        ELSE [m1 EXCEPT !.hdma_src = m1.hdma_src + 16,
                        !.hdma_dst = m1.hdma_dst + 16,
                        !.hdma_len = IF m1.hdma_len = 0 THEN 127 ELSE m1.hdma_len - 1]

RECURSIVE GdmaLoop(_, _)
GdmaLoop(m, rows) ==
    IF rows = 0 \/ m.fault THEN m ELSE GdmaLoop(perform_vram_dma_row(m), rows - 1)

perform_gdma(m) ==
    LET m1 == GdmaLoop(m, m.hdma_len + 1)
    IN  IF m1.fault THEN m1 ELSE [m1 EXCEPT !.hdma_status = "NoDMA"]

perform_hdma(m) ==
    IF ~m.ppu.hblank
    THEN m
    ELSE LET m1 == perform_vram_dma_row(m)
         IN  IF ~m1.fault /\ m1.hdma_len = 127
             THEN [m1 EXCEPT !.hdma_status = "NoDMA"]
             ELSE m1

perform_vram_dma(m) ==
    CASE m.hdma_status = "GDMA" -> perform_gdma(m)
      [] m.hdma_status = "HDMA" -> perform_hdma(m)
      [] OTHER -> m

read_word(m, addr) ==
    LET low == ReadByte(m, addr)
        high == ReadByte(m, Wrap16(addr + 1))
    IN  high * 256 + low

\* write_word: the second write_byte, not reached when the first one panicked
WriteHighByte(m1, addr, value) ==
    IF m1.fault THEN m1 ELSE WriteByte(m1, Wrap16(addr + 1), value \div 256)

write_word(m, addr, value) == WriteHighByte(WriteByte(m, addr, value % 256), addr, value)

(***************************************************************************)
(* Processor (cpu/mod.rs).  A processor value c is the record of the CPU   *)
(* fields [registers, mmu, ime, is_halted, call_stack].  An instruction is *)
(* the decoded Instruction value together with the word that follows the   *)
(* opcode in memory: [op, x, y, z, n, imm]; x, y and z are the variant's   *)
(* operands, n its bit position or restart vector, imm is what             *)
(* read_next_word() returns and imm % 256 what read_next_byte() returns.   *)
(***************************************************************************)
Source8Bit == {"A", "B", "C", "D", "E", "H", "L", "HLP", "N8"}
Target8Bit == {"A", "B", "C", "D", "E", "H", "L", "HLP"}
Reg16Bit == {"BC", "DE", "HL", "SP"}
IncDecTarget == {"A", "B", "C", "D", "E", "H", "L", "HLP", "BC", "DE", "HL", "SP"}
DerefTarget == {"BCP", "DEP", "HLI", "HLD"}
JumpTest == {"NotZero", "Zero", "NotCarry", "Carry", "Always"}
StackTarget == {"AF", "BC", "DE", "HL"}

Reg8(r, name) ==
    CASE name = "A" -> r.a [] name = "B" -> r.b [] name = "C" -> r.c
      [] name = "D" -> r.d [] name = "E" -> r.e [] name = "H" -> r.h
      [] OTHER -> r.l

SetReg8(r, name, v) ==
    CASE name = "A" -> [r EXCEPT !.a = v] [] name = "B" -> [r EXCEPT !.b = v]
      [] name = "C" -> [r EXCEPT !.c = v] [] name = "D" -> [r EXCEPT !.d = v]
      [] name = "E" -> [r EXCEPT !.e = v] [] name = "H" -> [r EXCEPT !.h = v]
      [] OTHER -> [r EXCEPT !.l = v]

Reg16(r, name) ==
    CASE name = "BC" -> get_bc(r) [] name = "DE" -> get_de(r)
      [] name = "HL" -> get_hl(r) [] name = "AF" -> get_af(r)
      [] OTHER -> r.sp

SetReg16(r, name, v) ==
    CASE name = "BC" -> set_bc(r, v) [] name = "DE" -> set_de(r, v)
      [] name = "HL" -> set_hl(r, v) [] name = "AF" -> set_af(r, v)
      [] OTHER -> [r EXCEPT !.sp = v]

read_next_byte(instr) == instr.imm % 256
read_next_word(instr) == instr.imm

\* `as i8 as i16 as u16`: the byte sign-extended to 16 bits
SignExtend(byte) == IF byte >= 128 THEN 65280 + byte ELSE byte

\* a plausible slip: the zero tests exchanged
check_conditionSwapped(r, condition) ==
    CASE condition = "NotZero" -> r.f.zero
      [] condition = "Zero" -> ~r.f.zero
      [] condition = "NotCarry" -> ~r.f.carry
      [] condition = "Carry" -> r.f.carry
      [] OTHER -> TRUE

check_condition(r, condition) ==
    CASE condition = "NotZero" -> ~r.f.zero
      [] condition = "Zero" -> r.f.zero
      [] condition = "NotCarry" -> ~r.f.carry
      [] condition = "Carry" -> r.f.carry
      [] OTHER -> TRUE

alu_inc_8bit(r, value) ==
    LET result == Wrap8(value + 1)
    IN  [result |-> result,
         f |-> [r.f EXCEPT !.zero = result = 0, !.subtract = FALSE,
                           !.half_carry = (value % 16) = 15]]

alu_dec_8bit(r, value) ==
    LET result == Wrap8(value + 255)
    IN  [result |-> result,
         f |-> [r.f EXCEPT !.zero = result = 0, !.subtract = TRUE,
                           !.half_carry = (value % 16) = 0]]

alu_inc_16bit(value) == Wrap16(value + 1)
alu_dec_16bit(value) == Wrap16(value + 65535)

ShiftFlags(result, carry) ==
    [zero |-> result = 0, subtract |-> FALSE, half_carry |-> FALSE, carry |-> carry]

alu_rl(r, value) ==
    LET result == Or8(Wrap8(value * 2), IF r.f.carry THEN 1 ELSE 0)
    IN  [result |-> result, f |-> ShiftFlags(result, IsSet(value, 7))]

alu_rlc(r, value) ==
    LET result == Wrap8(value * 2) + (value \div 128)
    IN  [result |-> result, f |-> ShiftFlags(result, IsSet(value, 7))]

alu_rr(r, value) ==
    LET result == Or8(value \div 2, IF r.f.carry THEN 128 ELSE 0)
    IN  [result |-> result, f |-> ShiftFlags(result, IsSet(value, 0))]

alu_rrc(r, value) ==
    LET result == (value \div 2) + (value % 2) * 128
    IN  [result |-> result, f |-> ShiftFlags(result, IsSet(value, 0))]

alu_sla(r, value) ==
    LET result == Wrap8(value * 2)
    IN  [result |-> result, f |-> ShiftFlags(result, IsSet(value, 7))]

alu_sra(r, value) ==
    LET result == Or8(value \div 2, And8(value, 128))
    IN  [result |-> result, f |-> ShiftFlags(result, IsSet(value, 0))]

alu_swap(r, value) ==
    LET result == Or8(value \div 16, Wrap8(value * 16))
    IN  [result |-> result, f |-> ShiftFlags(result, FALSE)]

alu_srl(r, value) ==
    LET result == value \div 2
    IN  [result |-> result, f |-> ShiftFlags(result, IsSet(value, 0))]

alu_bit(r, position, value) ==
    [r.f EXCEPT !.zero = ~IsSet(value, position), !.subtract = FALSE, !.half_carry = TRUE]

alu_res(position, value) == IF IsSet(value, position) THEN value - Pow2(position) ELSE value

alu_set(position, value) == IF IsSet(value, position) THEN value ELSE value + Pow2(position)

\* push: the stack pointer moves down by two, then the word is stored
push(c, value) ==
    LET sp == Wrap16(c.registers.sp + 65534)
    IN  [c EXCEPT !.registers.sp = sp, !.mmu = write_word(c.mmu, sp, value)]

\* pop: the word at the stack pointer, which then moves up by two
PopValue(c) == read_word(c.mmu, c.registers.sp)
PopState(c) == [c EXCEPT !.registers.sp = Wrap16(c.registers.sp + 2)]
PopReads(c) == {c.registers.sp, Wrap16(c.registers.sp + 1)}

\* the instructions behind the 0xCB prefix
PrefixedOps == {"RL", "RLC", "RR", "RRC", "SLA", "SRA", "SWAP", "SRL", "BIT", "RES", "SET"}

\* what execute() hands back to step(): the processor after the instruction,
\* the (next_pc, cycles) pair, and the addresses the instruction read
Outcome(c, next_pc, cycles, rd) == [c |-> c, next_pc |-> next_pc, cycles |-> cycles, rd |-> rd]

PcPlus(c, n) == Wrap16(c.registers.pc + n)

\* the alu_* helper each arithmetic instruction hands to arithmetic_instruction!
ArithmeticWork(op, r, value) ==
    CASE op = "ADC" -> alu_adc(r, value)
      [] op = "ADD" -> alu_add(r, value)
      [] op = "AND" -> alu_and(r, value)
      [] op = "CP" -> alu_cp(r, value)
      [] op = "OR" -> alu_or(r, value)
      [] op = "SBC" -> alu_sbc(r, value)
      [] op = "SUB" -> alu_sub(r, value)
      [] OTHER -> alu_xor(r, value)

\* arithmetic_instruction!(source, self.work)
ExecArithmetic(c, instr) ==
    LET r == c.registers
        source == instr.x
        hl == get_hl(r)
        value == CASE source = "HLP" -> ReadByte(c.mmu, hl)
                   [] source = "N8" -> read_next_byte(instr)
                   [] OTHER -> Reg8(r, source)
        c1 == [c EXCEPT !.registers = ArithmeticWork(instr.op, r, value)]
    IN  CASE source = "N8" -> Outcome(c1, PcPlus(c, 2), 8, {})
          [] source = "HLP" -> Outcome(c1, PcPlus(c, 1), 8, {hl})
          [] OTHER -> Outcome(c1, PcPlus(c, 1), 4, {})

\* the value a Target8Bit operand names
TargetValue(c, target) ==
    IF target = "HLP" THEN ReadByte(c.mmu, get_hl(c.registers)) ELSE Reg8(c.registers, target)

TargetReads(c, target) == IF target = "HLP" THEN {get_hl(c.registers)} ELSE {}

\* set_target_8bit, and the destination match of bitwise_instruction!
set_target_8bit(c, target, value) ==
    IF target = "HLP"
    THEN [c EXCEPT !.mmu = WriteByte(c.mmu, get_hl(c.registers), value)]
    ELSE [c EXCEPT !.registers = SetReg8(c.registers, target, value)]

\* the alu_* helper each rotate or shift hands to bitwise_instruction!
BitwiseWork(op, r, value) ==
    CASE op \in {"RL", "RLA"} -> alu_rl(r, value)
      [] op \in {"RLC", "RLCA"} -> alu_rlc(r, value)
      [] op \in {"RR", "RRA"} -> alu_rr(r, value)
      [] op \in {"RRC", "RRCA"} -> alu_rrc(r, value)
      [] op = "SLA" -> alu_sla(r, value)
      [] op = "SRA" -> alu_sra(r, value)
      [] op = "SWAP" -> alu_swap(r, value)
      [] OTHER -> alu_srl(r, value)

\* bitwise_instruction!(self: target => work)
ExecBitwise(c, instr) ==
    LET target == instr.x
        w == BitwiseWork(instr.op, c.registers, TargetValue(c, target))
        c1 == set_target_8bit([c EXCEPT !.registers.f = w.f], target, w.result)
    IN  Outcome(c1, PcPlus(c, 2), IF target = "HLP" THEN 16 ELSE 8, TargetReads(c, target))

\* RLA, RLCA, RRA, RRCA: the rotate on A with the zero flag cleared
ExecRotateA(c, instr) ==
    LET w == BitwiseWork(instr.op, c.registers, c.registers.a)
    IN  Outcome([c EXCEPT !.registers.a = w.result,
                          !.registers.f = [w.f EXCEPT !.zero = FALSE]],
                PcPlus(c, 1), 4, {})

ExecBit(c, instr) ==
    LET target == instr.x
    IN  Outcome([c EXCEPT !.registers.f = alu_bit(c.registers, instr.n, TargetValue(c, target))],
                PcPlus(c, 2), IF target = "HLP" THEN 12 ELSE 8, TargetReads(c, target))

\* RES and SET: bitwise_instruction!(self: target => (work @ position) => target)
ExecResSet(c, instr) ==
    LET target == instr.x
        value == TargetValue(c, target)
        result == IF instr.op = "RES" THEN alu_res(instr.n, value) ELSE alu_set(instr.n, value)
    IN  Outcome(set_target_8bit(c, target, result),
                PcPlus(c, 2), IF target = "HLP" THEN 12 ELSE 8, TargetReads(c, target))

\* a plausible slip: ADD HL recomputes the zero flag like the 8-bit adds
ExecAddHlSetsZero(c, instr) ==
    LET r == c.registers
        value == Reg16(r, instr.x)
        hl == get_hl(r)
        result == Wrap16(hl + value)
        f == [r.f EXCEPT !.zero = result = 0,
                         !.subtract = FALSE,
                         !.half_carry = (hl % 4096) + (value % 4096) > 4095,
                         !.carry = hl + value > 65535]
    IN  Outcome([c EXCEPT !.registers = set_hl([r EXCEPT !.f = f], result)],
                PcPlus(c, 1), 8, {})

ExecAddHl(c, instr) ==
    LET r == c.registers
        value == Reg16(r, instr.x)
        hl == get_hl(r)
        result == Wrap16(hl + value)
        f == [r.f EXCEPT !.subtract = FALSE,
                         !.half_carry = (hl % 4096) + (value % 4096) > 4095,
                         !.carry = hl + value > 65535]
    IN  Outcome([c EXCEPT !.registers = set_hl([r EXCEPT !.f = f], result)],
                PcPlus(c, 1), 8, {})

\* the flags ADD SP,e8 and LD HL,SP+e8 compute
SpOffsetFlags(sp, value) ==
    [zero |-> FALSE, subtract |-> FALSE,
     half_carry |-> (sp % 16) + (value % 16) > 15,
     carry |-> (sp % 256) + (value % 256) > 255]

ExecAddSp(c, instr) ==
    LET r == c.registers
        value == SignExtend(read_next_byte(instr))
    IN  Outcome([c EXCEPT !.registers.f = SpOffsetFlags(r.sp, value),
                          !.registers.sp = Wrap16(r.sp + value)],
                PcPlus(c, 2), 16, {})

\* a plausible slip: the 16-bit forms cost 6
IncDecCyclesOdd(target) ==
    CASE target \in {"BC", "DE", "HL", "SP"} -> 6
      [] target = "HLP" -> 12
      [] OTHER -> 4

IncDecCycles(target) ==
    CASE target \in {"BC", "DE", "HL", "SP"} -> 8
      [] target = "HLP" -> 12
      [] OTHER -> 4

\* INC and DEC
ExecIncDec(c, instr) ==
    LET r == c.registers
        target == instr.x
        Work8(rr, value) == IF instr.op = "INC" THEN alu_inc_8bit(rr, value)
                                               ELSE alu_dec_8bit(rr, value)
        Work16(value) == IF instr.op = "INC" THEN alu_inc_16bit(value) ELSE alu_dec_16bit(value)
        c1 == CASE target \in {"BC", "DE", "HL", "SP"} ->
                     [c EXCEPT !.registers = SetReg16(r, target, Work16(Reg16(r, target)))]
                [] target = "HLP" ->
                     LET address == get_hl(r)
                         w == Work8(r, ReadByte(c.mmu, address))
                     IN  [c EXCEPT !.registers.f = w.f,
                                   !.mmu = WriteByte(c.mmu, address, w.result)]
                [] OTHER ->
                     LET w == Work8(r, Reg8(r, target))
                     IN  [c EXCEPT !.registers = SetReg8([r EXCEPT !.f = w.f], target, w.result)]
    IN  Outcome(c1, PcPlus(c, 1), IncDecCycles(target), TargetReads(c, target))

\* get_value_deref: the address, and the registers after HL+ / HL-
DerefAddress(r, target) ==
    CASE target = "BCP" -> get_bc(r)
      [] target = "DEP" -> get_de(r)
      [] OTHER -> get_hl(r)

DerefRegisters(r, target) ==
    CASE target = "HLI" -> set_hl(r, Wrap16(get_hl(r) + 1))
      [] target = "HLD" -> set_hl(r, Wrap16(get_hl(r) + 65535))
      [] OTHER -> r

ExecLoad(c, instr) ==
    LET r == c.registers
        load_type == instr.x
        a8 == Wrap16(\hFF00 + read_next_byte(instr))
        a16 == read_next_word(instr)
        ac == Wrap16(\hFF00 + r.c)
    IN  CASE load_type = "Byte" ->
               LET destination == instr.y
                   source == instr.z
               IN  Outcome(set_target_8bit(c, destination, TargetValue(c, source)),
                           PcPlus(c, 1),
                           IF destination = "HLP" \/ source = "HLP" THEN 8 ELSE 4,
                           TargetReads(c, source))
          [] load_type = "ByteFromImm" ->
               Outcome(set_target_8bit(c, instr.y, read_next_byte(instr)), PcPlus(c, 2), 8, {})
          [] load_type = "AFromDeref" ->
               LET address == DerefAddress(r, instr.y)
               IN  Outcome([c EXCEPT !.registers =
                                [DerefRegisters(r, instr.y) EXCEPT !.a = ReadByte(c.mmu, address)]],
                           PcPlus(c, 1), 8, {address})
          [] load_type = "DerefFromA" ->
               LET address == DerefAddress(r, instr.y)
               IN  Outcome([c EXCEPT !.registers = DerefRegisters(r, instr.y),
                                     !.mmu = WriteByte(c.mmu, address, r.a)],
                           PcPlus(c, 1), 8, {})
          [] load_type = "AFromDerefC" ->
               Outcome([c EXCEPT !.registers.a = ReadByte(c.mmu, ac)], PcPlus(c, 1), 8, {ac})
          [] load_type = "DerefCFromA" ->
               Outcome([c EXCEPT !.mmu = WriteByte(c.mmu, ac, r.a)], PcPlus(c, 1), 8, {})
          [] load_type = "A8FromA" ->
               Outcome([c EXCEPT !.mmu = WriteByte(c.mmu, a8, r.a)], PcPlus(c, 2), 12, {})
          [] load_type = "AFromA8" ->
               Outcome([c EXCEPT !.registers.a = ReadByte(c.mmu, a8)], PcPlus(c, 2), 12, {a8})
          [] load_type = "A16FromA" ->
               Outcome([c EXCEPT !.mmu = WriteByte(c.mmu, a16, r.a)], PcPlus(c, 3), 16, {})
          [] load_type = "AFromA16" ->
               Outcome([c EXCEPT !.registers.a = ReadByte(c.mmu, a16)], PcPlus(c, 3), 16, {a16})
          [] load_type = "WordFromImm" ->
               Outcome([c EXCEPT !.registers = SetReg16(r, instr.y, a16)], PcPlus(c, 3), 12, {})
          [] load_type = "SPFromHL" ->
               Outcome([c EXCEPT !.registers.sp = get_hl(r)], PcPlus(c, 1), 8, {})
          [] load_type = "HLFromSPE8" ->
               LET value == SignExtend(read_next_byte(instr))
               IN  Outcome([c EXCEPT !.registers =
                                set_hl([r EXCEPT !.f = SpOffsetFlags(r.sp, value)],
                                       Wrap16(r.sp + value))],
                           PcPlus(c, 2), 12, {})
          [] OTHER -> \* A16FromSP
               Outcome([c EXCEPT !.mmu = write_word(c.mmu, a16, r.sp)], PcPlus(c, 3), 20, {})

ExecCall(c, instr) ==
    IF check_condition(c.registers, instr.x)
    THEN LET address == read_next_word(instr)
             return_address == PcPlus(c, 3)
             c1 == push(c, return_address)
         IN  Outcome([c1 EXCEPT !.call_stack =
                          Append(c.call_stack, <<c.registers.pc, address, return_address>>)],
                     address, 24, {})
    ELSE Outcome(c, PcPlus(c, 3), 12, {})

ExecJp(c, instr) ==
    IF check_condition(c.registers, instr.x)
    THEN Outcome(c, read_next_word(instr), 16, {})
    ELSE Outcome(c, PcPlus(c, 3), 12, {})

\* the target of a taken JR: offset is the next byte as i8
JrTarget(pc, byte) ==
    IF byte < 128
    THEN Wrap16(Wrap16(pc + 2) + byte)
    ELSE Wrap16(Wrap16(pc + 2) + 65536 - (256 - byte))

ExecJr(c, instr) ==
    IF check_condition(c.registers, instr.x)
    THEN Outcome(c, JrTarget(c.registers.pc, read_next_byte(instr)), 16, {})
    ELSE Outcome(c, PcPlus(c, 2), 12, {})

\* Vec::pop: the last record is dropped, an empty stack stays empty
CallStackPop(stack) == IF Len(stack) = 0 THEN stack ELSE SubSeq(stack, 1, Len(stack) - 1)

ExecRet(c, instr) ==
    IF check_condition(c.registers, instr.x)
    THEN Outcome([PopState(c) EXCEPT !.call_stack = CallStackPop(c.call_stack)],
                 PopValue(c), IF instr.x = "Always" THEN 16 ELSE 20, PopReads(c))
    ELSE Outcome(c, PcPlus(c, 1), 8, {})

ExecReti(c) ==
    Outcome([PopState(c) EXCEPT !.ime = TRUE, !.call_stack = CallStackPop(c.call_stack)],
            PopValue(c), 16, PopReads(c))

ExecRst(c, instr) ==
    LET return_address == PcPlus(c, 1)
        c1 == push(c, return_address)
    IN  Outcome([c1 EXCEPT !.call_stack =
                     Append(c.call_stack, <<c.registers.pc, instr.n, return_address>>)],
                instr.n, 16, {})

ExecPop(c, instr) ==
    LET c1 == PopState(c)
    IN  Outcome([c1 EXCEPT !.registers = SetReg16(c1.registers, instr.x, PopValue(c))],
                PcPlus(c, 1), 12, PopReads(c))

ExecPush(c, instr) ==
    Outcome(push(c, Reg16(c.registers, instr.x)), PcPlus(c, 1), 16, {})

ExecDaa(c) ==
    LET r == c.registers
        a == r.a
        adjust1 == IF r.f.half_carry \/ (~r.f.subtract /\ (a % 16) > 9) THEN 6 ELSE 0
        high == r.f.carry \/ (~r.f.subtract /\ a > 153)
        adjust == IF high THEN Or8(adjust1, 96) ELSE adjust1
        a1 == IF r.f.subtract THEN Wrap8(a + 256 - adjust) ELSE Wrap8(a + adjust)
    IN  Outcome([c EXCEPT !.registers.a = a1,
                          !.registers.f = [r.f EXCEPT !.carry = IF high THEN TRUE ELSE r.f.carry,
                                                      !.zero = a1 = 0,
                                                      !.half_carry = FALSE]],
                PcPlus(c, 1), 4, {})

\* execute(): one arm per Instruction variant
Execute(c, instr) ==
    LET op == instr.op
        r == c.registers
    IN  CASE op = "ADC" -> ExecArithmetic(c, instr)
          [] op = "ADD" -> ExecArithmetic(c, instr)
          [] op = "ADDHL" -> ExecAddHl(c, instr)
          [] op = "ADDSP" -> ExecAddSp(c, instr)
          [] op = "AND" -> ExecArithmetic(c, instr)
          [] op = "CP" -> ExecArithmetic(c, instr)
          [] op = "INC" -> ExecIncDec(c, instr)
          [] op = "DEC" -> ExecIncDec(c, instr)
          [] op = "OR" -> ExecArithmetic(c, instr)
          [] op = "SBC" -> ExecArithmetic(c, instr)
          [] op = "SUB" -> ExecArithmetic(c, instr)
          [] op = "XOR" -> ExecArithmetic(c, instr)
          [] op = "RL" -> ExecBitwise(c, instr)
          [] op = "RLA" -> ExecRotateA(c, instr)
          [] op = "RLC" -> ExecBitwise(c, instr)
          [] op = "RLCA" -> ExecRotateA(c, instr)
          [] op = "RR" -> ExecBitwise(c, instr)
          [] op = "RRA" -> ExecRotateA(c, instr)
          [] op = "RRC" -> ExecBitwise(c, instr)
          [] op = "RRCA" -> ExecRotateA(c, instr)
          [] op = "SLA" -> ExecBitwise(c, instr)
          [] op = "SRA" -> ExecBitwise(c, instr)
          [] op = "SWAP" -> ExecBitwise(c, instr)
          [] op = "SRL" -> ExecBitwise(c, instr)
          [] op = "BIT" -> ExecBit(c, instr)
          [] op = "RES" -> ExecResSet(c, instr)
          [] op = "SET" -> ExecResSet(c, instr)
          [] op = "LD" -> ExecLoad(c, instr)
          [] op = "CALL" -> ExecCall(c, instr)
          [] op = "JP" -> ExecJp(c, instr)
          [] op = "JPHL" -> Outcome(c, get_hl(r), 4, {})
          [] op = "JR" -> ExecJr(c, instr)
          [] op = "RET" -> ExecRet(c, instr)
          [] op = "RETI" -> ExecReti(c)
          [] op = "RST" -> ExecRst(c, instr)
          [] op = "POP" -> ExecPop(c, instr)
          [] op = "PUSH" -> ExecPush(c, instr)
          [] op = "CCF" ->
               Outcome([c EXCEPT !.registers.f = [r.f EXCEPT !.subtract = FALSE,
                                                            !.half_carry = FALSE,
                                                            !.carry = ~r.f.carry]],
                       PcPlus(c, 1), 4, {})
          [] op = "CPL" ->
               Outcome([c EXCEPT !.registers.a = 255 - r.a,
                                 !.registers.f = [r.f EXCEPT !.subtract = TRUE,
                                                            !.half_carry = TRUE]],
                       PcPlus(c, 1), 4, {})
          [] op = "DAA" -> ExecDaa(c)
          [] op = "DI" -> Outcome([c EXCEPT !.ime = FALSE], PcPlus(c, 1), 4, {})
          [] op = "EI" -> Outcome([c EXCEPT !.ime = TRUE], PcPlus(c, 1), 4, {})
          [] op = "HALT" -> Outcome([c EXCEPT !.is_halted = TRUE], PcPlus(c, 1), 4, {})
          [] op = "NOP" -> Outcome(c, PcPlus(c, 1), 4, {})
          [] op = "SCF" ->
               Outcome([c EXCEPT !.registers.f = [r.f EXCEPT !.subtract = FALSE,
                                                            !.half_carry = FALSE,
                                                            !.carry = TRUE]],
                       PcPlus(c, 1), 4, {})
          [] OTHER -> \* STOP
               Outcome(c, PcPlus(c, 2), 4, {})

\* interrupt() after its push (c1 is the processor after it): the call-stack
\* record, the jump and the 12 cycles of the MMU
InterruptJump(c, address, c1) ==
    [c1 EXCEPT !.call_stack = Append(c.call_stack, <<c.registers.pc, address, c.registers.pc>>),
               !.registers.pc = address,
               !.mmu = MmuStep(c1.mmu, 12)]

\* a plausible slip: the dispatch forgets to clear the global enable
interruptImeKept(c, address) == InterruptJump(c, address, push(c, c.registers.pc))

\* interrupt(): the dispatch to a vector
interrupt(c, address) ==
    InterruptJump(c, address, push([c EXCEPT !.ime = FALSE], c.registers.pc))

\* a plausible slip: the scan does not look at the global enable
ServiceInterruptIgnoringIme(c) ==
    LET ie == c.mmu.interrupt_enable
        pending == c.mmu.interrupt_flags
        clear(mask) == [c EXCEPT !.mmu.interrupt_flags = And8(pending, 255 - mask)]
    IN  IF IsSet(ie, 0) /\ IsSet(pending, 0)
        THEN [c |-> interrupt(clear(1), \h40), vectors |-> <<\h40>>]
        ELSE IF IsSet(ie, 1) /\ IsSet(pending, 1)
        THEN [c |-> interrupt(clear(2), \h48), vectors |-> <<\h48>>]
        ELSE IF IsSet(ie, 2) /\ IsSet(pending, 2)
        THEN [c |-> interrupt(clear(4), \h50), vectors |-> <<\h50>>]
        ELSE [c |-> c, vectors |-> <<>>]

\* a plausible slip: the timer is scanned before vblank and LCD-stat
ServiceInterruptTimerFirst(c) ==
    LET ie == c.mmu.interrupt_enable
        pending == c.mmu.interrupt_flags
        clear(mask) == [c EXCEPT !.mmu.interrupt_flags = And8(pending, 255 - mask)]
    IN  IF ~c.ime THEN [c |-> c, vectors |-> <<>>]
        ELSE IF IsSet(ie, 2) /\ IsSet(pending, 2)
        THEN [c |-> interrupt(clear(4), \h50), vectors |-> <<\h50>>]
        ELSE IF IsSet(ie, 0) /\ IsSet(pending, 0)
        THEN [c |-> interrupt(clear(1), \h40), vectors |-> <<\h40>>]
        ELSE IF IsSet(ie, 1) /\ IsSet(pending, 1)
        THEN [c |-> interrupt(clear(2), \h48), vectors |-> <<\h48>>]
        ELSE [c |-> c, vectors |-> <<>>]

\* the interrupt scan at the end of step(): the processor after it and the
\* vectors dispatched to, in order
ServiceInterrupt(c) ==
    LET ie == c.mmu.interrupt_enable
        pending == c.mmu.interrupt_flags
        clear(mask) == [c EXCEPT !.mmu.interrupt_flags = And8(pending, 255 - mask)]
    IN  IF ~c.ime THEN [c |-> c, vectors |-> <<>>]
        ELSE IF IsSet(ie, 0) /\ IsSet(pending, 0)
        THEN [c |-> interrupt(clear(1), \h40), vectors |-> <<\h40>>]
        ELSE IF IsSet(ie, 1) /\ IsSet(pending, 1)
        THEN [c |-> interrupt(clear(2), \h48), vectors |-> <<\h48>>]
        ELSE IF IsSet(ie, 2) /\ IsSet(pending, 2)
        THEN [c |-> interrupt(clear(4), \h50), vectors |-> <<\h50>>]
        ELSE [c |-> c, vectors |-> <<>>]

\* a plausible slip: the 12 dispatch cycles are left out of the value returned
StepReturnWithoutDispatch(e, c1, s) ==
    [c |-> s.c, panicked |-> s.c.mmu.fault, cycles |-> e.cycles,
     next_pc |-> e.next_pc, exec_cycles |-> e.cycles, mid |-> c1, vectors |-> s.vectors]

\* step(): what one call leaves behind.
\*   c           the processor after the call
\*   panicked    the call panicked instead of returning
\*   cycles      the value returned
\*   next_pc, exec_cycles   the pair execute() returned
\*   mid         the processor when the interrupt scan starts
\*   vectors     the vectors interrupt() was called with, in order
\* StepReturn is the end of step(): e is what execute() returned, c1 the
\* processor at the interrupt scan, s the outcome of the scan.
StepReturn(e, c1, s) ==
    [c |-> s.c, panicked |-> s.c.mmu.fault,
     cycles |-> IF Len(s.vectors) > 0 THEN e.cycles + 12 ELSE e.cycles,
     next_pc |-> e.next_pc, exec_cycles |-> e.cycles, mid |-> c1, vectors |-> s.vectors]

StepScan(e, c1) == StepReturn(e, c1, ServiceInterrupt(c1))

\* after mmu.step(cycles) gave m1: a pending enabled interrupt ends HALT, and
\* PC moves on unless the processor is still halted
StepWake(c, e, m1) ==
    [e.c EXCEPT !.mmu = m1,
                !.is_halted = IF has_interrupt(m1) THEN FALSE ELSE e.c.is_halted,
                !.registers.pc = IF has_interrupt(m1) \/ ~e.c.is_halted
                                 THEN e.next_pc ELSE c.registers.pc]

\* the addresses the opcode fetch reads
StepFetch(c, instr) ==
    IF instr.op \in PrefixedOps THEN {c.registers.pc, PcPlus(c, 1)} ELSE {c.registers.pc}

\* step() once execute() has returned e, or panicked in one of its accesses
StepExecuted(c, instr, e) ==
    IF (\E a \in StepFetch(c, instr) \cup e.rd : ReadPanics(c.mmu, a)) \/ e.c.mmu.fault
    THEN [c |-> [c EXCEPT !.mmu.fault = TRUE], panicked |-> TRUE, cycles |-> 0,
          next_pc |-> e.next_pc, exec_cycles |-> e.cycles, mid |-> c, vectors |-> <<>>]
    ELSE StepScan(e, StepWake(c, e, MmuStep(e.c.mmu, e.cycles)))

StepResult(c, instr) == StepExecuted(c, instr, Execute(c, instr))

(***************************************************************************)
(* The state machine.  The processor's fields are the variables; last      *)
(* records the most recent operation with what it was given and what it    *)
(* returned, and steps counts the operations performed.                    *)
(***************************************************************************)
Cpu ==
    [registers |-> registers, mmu |-> mmu, ime |-> ime, is_halted |-> is_halted,
     call_stack |-> call_stack]

\* the processor becomes what step() left (res), and last records the call
StepTo(instr, res) ==
    /\ registers' = res.c.registers
    /\ mmu' = res.c.mmu
    /\ ime' = res.c.ime
    /\ is_halted' = res.c.is_halted
    /\ call_stack' = res.c.call_stack
    /\ last' = [kind |-> "step", instr |-> instr, pre |-> Cpu, mid |-> res.mid,
                next_pc |-> res.next_pc, exec_cycles |-> res.exec_cycles,
                cycles |-> res.cycles, vectors |-> res.vectors,
                panicked |-> res.panicked]

\* CPU::step() on the instruction the program holds at PC.  While the
\* processor is halted PC stays on the HALT that halted it.
Step(instr) ==
    /\ ~mmu.fault
    /\ is_halted => instr.op = "HALT"
    /\ StepTo(instr, StepResult(Cpu, instr))
    /\ steps' = steps + 1
    /\ audio' = audio

\* the operand slot a variant does not use
None == "-"

\* a decoded instruction: the variant (op), its operands (x, y, z), its bit
\* position or restart vector (n) and the bytes that follow the opcode (imm)
Instr(op, x, y, imm) == [op |-> op, x |-> x, y |-> y, z |-> None, n |-> 0, imm |-> imm]


\* the processor after CPU::new on a monochrome cartridge without the boot overlay run
InitCommon ==
    /\ ime = FALSE
    /\ is_halted = FALSE
    /\ call_stack = <<>>
    /\ mmu = MmuNew("Classic")
    /\ last = [kind |-> "init"]
    /\ steps = 0
    /\ audio = AudioNew

(***************************************************************************)
(* SpecAlu: the 8-bit arithmetic of the accumulator, on every accumulator  *)
(* value, every operand byte and both values of the incoming carry.        *)
(***************************************************************************)
AluOps == {"ADD", "ADC", "SUB", "SBC", "CP"}

InitAlu ==
    /\ InitCommon
    /\ \E a \in Byte, cy \in BOOLEAN :
           registers = [RegistersNew(FALSE, FALSE) EXCEPT !.a = a, !.f.carry = cy]

\* op A,n8 executed once on the drawn accumulator and carry
AluApply(op, value) ==
    /\ steps = 0
    /\ audio = AudioNew
    /\ registers' = Execute(Cpu, Instr(op, "N8", None, value)).c.registers
    /\ last' = [kind |-> "alu", op |-> op, a |-> registers.a, value |-> value,
                carry_in |-> registers.f.carry]
    /\ steps' = 1
    /\ audio' = audio
    /\ UNCHANGED <<ime, is_halted, call_stack, mmu>>

NextAlu == \E op \in AluOps, value \in Byte : AluApply(op, value)

SpecAlu == InitAlu /\ [][NextAlu]_vars

\* C6: ADD, ADC, SUB, SBC and CP give the reference result mod 256 and the
\* reference flags: zero = (result = 0); subtract clear for ADD/ADC and set
\* for SUB/SBC/CP; half-carry = carry or borrow out of bit 3 and carry =
\* carry or borrow out of bit 7, both counting the incoming carry for
\* ADC/SBC; CP leaves A unchanged.
C6_AluReference ==
    last.kind = "alu" =>
        LET a == last.a
            v == last.value
            cin == IF last.op \in {"ADC", "SBC"} /\ last.carry_in THEN 1 ELSE 0
            adding == last.op \in {"ADD", "ADC"}
            full == IF adding THEN a + v + cin ELSE a - v - cin
            low == IF adding THEN (a % 16) + (v % 16) + cin ELSE (a % 16) - (v % 16) - cin
            result == (full + 256) % 256
        IN  /\ registers.a = IF last.op = "CP" THEN a ELSE result
            /\ registers.f.zero = (result = 0)
            /\ registers.f.subtract = ~adding
            /\ registers.f.half_carry = (low > 15 \/ low < 0)
            /\ registers.f.carry = (full > 255 \/ full < 0)

\* ADD A,0xFF with A = 0x01: A = 0x00, zero, carry and half-carry set, subtract clear
C6_Witness ==
    /\ last.kind = "alu" /\ last.op = "ADD" /\ last.a = 1 /\ last.value = 255
    /\ registers.a = 0
    /\ registers.f = [zero |-> TRUE, subtract |-> FALSE, half_carry |-> TRUE, carry |-> TRUE]

(***************************************************************************)
(* SpecCpu: short runs of step() over the instructions that bear on        *)
(* interrupts and HALT.  The run starts from states the program reaches by *)
(* its own writes: EI for ime, stores to 0xFFFF and 0xFF0F for IE and IF,  *)
(* stores to 0xFF05..0xFF07 for the timer, LD SP for the stack pointer.    *)
(***************************************************************************)
MaxSteps == 3

\* IE and IF values: none, timer alone, vblank+timer, LCD-stat+timer, all
\* three, joypad alone, joypad+timer
IrqBytes == {0, 4, 5, 6, 7, 16, 20}

\* the timer as constructed, and an enabled timer 4 and 8 cycles short of overflow
TimerStates ==
    {TimerNew,
     [TimerNew EXCEPT !.enabled = TRUE, !.step = 16, !.counter = 255, !.internal_counter = 12],
     [TimerNew EXCEPT !.enabled = TRUE, !.step = 16, !.counter = 255, !.internal_counter = 8]}

\* a stack in high RAM (as constructed) and one in working RAM
StackPointers == {\hFFFE, \hD000}

CpuProgram ==
    {Instr("NOP", None, None, 0), Instr("HALT", None, None, 0),
     Instr("EI", None, None, 0), Instr("DI", None, None, 0),
     Instr("LD", "A8FromA", None, \h0F), Instr("LD", "A8FromA", None, \hFF),
     Instr("LD", "ByteFromImm", "A", 4), Instr("RETI", None, None, 0)}

InitCpu ==
    /\ is_halted = FALSE
    /\ call_stack = <<>>
    /\ last = [kind |-> "init"]
    /\ steps = 0
    /\ audio = AudioNew
    /\ ime \in BOOLEAN
    /\ \E sp \in StackPointers : registers = [RegistersNew(FALSE, FALSE) EXCEPT !.sp = sp]
    /\ \E ie \in IrqBytes, pending \in IrqBytes, t \in TimerStates :
           mmu = [MmuNew("Classic") EXCEPT !.interrupt_enable = ie,
                                           !.interrupt_flags = pending,
                                           !.timer = t]

NextCpu == \E instr \in CpuProgram : steps < MaxSteps /\ Step(instr)

SpecCpu == InitCpu /\ [][NextCpu]_vars

\* interrupt b is enabled in IE and pending in IF
EnabledPending(m, b) == IsSet(m.interrupt_enable, b) /\ IsSet(m.interrupt_flags, b)

\* the word pushed at address a lands in working-RAM bank 0 or in high RAM
StackInRam(a) ==
    \/ InRange(a, \hC000, \hCFFE)
    \/ InRange(a, \hFF80, \hFFFD)

\* the interrupt bits the timer and the PPU raise while the MMU advances by cycles
RaisedDuring(m, cycles) ==
    Or8(TimerStep(m.timer, cycles).interrupt, PpuStep(m.ppu, cycles).interrupt)

ScanSet(m) == {b \in 0..2 : EnabledPending(m, b)}

\* the smallest element of a non-empty set of numbers
Lowest(S) == CHOOSE b \in S : \A o \in S : b <= o

\* C2: when IME is set and several of vblank (bit 0), LCD-stat (bit 1) and
\* timer (bit 2) are enabled and pending at the interrupt scan, step()
\* services only the lowest-numbered one: one dispatch, to the vector
\* 0x40 + 8 * bit; that bit is cleared before the dispatch cycles (only the
\* timer or PPU raising it anew within them sets it again) and every other
\* bit pending at the scan is still pending after the step.
C2_LowestFirst ==
    (/\ last.kind = "step"
     /\ ~last.panicked
     /\ last.mid.ime
     /\ Cardinality(ScanSet(last.mid.mmu)) >= 2
     /\ StackInRam(Wrap16(last.mid.registers.sp + 65534)))
    => LET low == Lowest(ScanSet(last.mid.mmu))
           before == last.mid.mmu.interrupt_flags
           raised == RaisedDuring(last.mid.mmu, 12)
       IN  /\ last.vectors = <<\h40 + 8 * low>>
           /\ registers.pc = \h40 + 8 * low
           /\ \A b \in (0..7) \ {low} : IsSet(before, b) => IsSet(mmu.interrupt_flags, b)
           /\ IsSet(mmu.interrupt_flags, low) <=> IsSet(raised, low)
           /\ mmu.interrupt_flags = Or8(before - Pow2(low), raised)
           /\ last.cycles = last.exec_cycles + 12

\* a step that found LCD-stat and timer both enabled and pending, took the
\* LCD-stat vector and left the timer bit pending
C2_Witness ==
    /\ last.kind = "step"
    /\ ~last.panicked
    /\ last.mid.ime
    /\ ScanSet(last.mid.mmu) = {1, 2}
    /\ last.vectors = <<\h48>>
    /\ registers.pc = \h48
    /\ IsSet(mmu.interrupt_flags, 2)
    /\ ~IsSet(mmu.interrupt_flags, 1)

\* C4 as stated: a halted processor keeps PC while no enabled interrupt is
\* pending; once (IF & IE) != 0 it leaves the halted state whatever IME is;
\* with IME set the interrupt is serviced, with IME clear nothing is pushed,
\* no pending bit is cleared and it continues at the same address.
C4_AsStated ==
    (last.kind = "step" /\ ~last.panicked /\ last.pre.is_halted)
    => /\ ~has_interrupt(last.mid.mmu)
              => is_halted /\ registers.pc = last.pre.registers.pc
       /\ has_interrupt(last.mid.mmu)
              => /\ ~is_halted
                 /\ last.mid.ime => Len(last.vectors) = 1
                 /\ ~last.mid.ime
                        => /\ last.vectors = <<>>
                           /\ registers.sp = last.pre.registers.sp
                           /\ mmu.interrupt_flags = last.mid.mmu.interrupt_flags
                           /\ registers.pc = last.pre.registers.pc

\* C4 (amended): a halted processor keeps PC, stays halted and services
\* nothing across a step() after which (IF & IE) = 0; once (IF & IE) != 0
\* after the MMU advance it leaves the halted state whatever IME is and PC
\* moves to the address after the HALT.  With IME set the interrupt is
\* serviced with that address pushed; with IME clear nothing is pushed, no
\* pending bit is cleared, memory is untouched and execution continues at
\* the address after the HALT.
C4_HaltWake ==
    (last.kind = "step" /\ ~last.panicked /\ last.pre.is_halted)
    => LET after_halt == Wrap16(last.pre.registers.pc + 1)
       IN  /\ last.instr.op = "HALT"
           /\ And8(last.pre.mmu.interrupt_flags, last.pre.mmu.interrupt_enable) = 0
           /\ ~has_interrupt(last.mid.mmu)
                  => /\ is_halted
                     /\ registers = last.pre.registers
                     /\ last.vectors = <<>>
                     /\ last.cycles = 4
           /\ has_interrupt(last.mid.mmu)
                  => /\ ~is_halted
                     /\ last.mid.registers.pc = after_halt
                     /\ last.mid.ime
                            => /\ Len(last.vectors) = 1
                               /\ registers.sp = Wrap16(last.pre.registers.sp + 65534)
                               /\ StackInRam(registers.sp)
                                      => read_word(mmu, registers.sp) = after_halt
                               /\ last.cycles = 16
                     /\ ~last.mid.ime
                            => /\ last.vectors = <<>>
                               /\ registers = [last.pre.registers EXCEPT !.pc = after_halt]
                               /\ mmu = last.mid.mmu
                               /\ last.cycles = 4

\* a processor halted by an earlier step that the timer wakes with IME clear
C4_Witness ==
    /\ last.kind = "step"
    /\ ~last.panicked
    /\ last.pre.is_halted
    /\ has_interrupt(last.mid.mmu)
    /\ ~last.mid.ime
    /\ ~is_halted
    /\ registers.pc = Wrap16(last.pre.registers.pc + 1)

(***************************************************************************)
(* SpecExec: one step() on every instruction variant execute() matches,    *)
(* from every flag state, with the operand pairs pointing into RAM.        *)
(***************************************************************************)
\* the bytes that follow the opcode: as a byte 0x05 and 0xFB (-5), as a word
\* two working-RAM addresses
Imms == {\hC105, \hC1FB}

ArithmeticOps == {"ADC", "ADD", "AND", "CP", "OR", "SBC", "SUB", "XOR"}

ShiftOps == {"RL", "RLC", "RR", "RRC", "SLA", "SRA", "SWAP", "SRL"}

PlainOps ==
    {"RLA", "RLCA", "RRA", "RRCA", "JPHL", "RETI", "CCF", "CPL", "DAA", "DI", "EI", "HALT",
     "NOP", "SCF", "STOP"}

LoadProgram ==
    {[Instr("LD", "Byte", pair[1], 0) EXCEPT !.z = pair[2]] :
         pair \in {dt \in Target8Bit \X Target8Bit : dt # <<"HLP", "HLP">>}}
    \cup {Instr("LD", "ByteFromImm", d, n) : d \in Target8Bit, n \in Imms}
    \cup {Instr("LD", lt, d, 0) : lt \in {"AFromDeref", "DerefFromA"}, d \in DerefTarget}
    \cup {Instr("LD", lt, None, 0) : lt \in {"AFromDerefC", "DerefCFromA", "SPFromHL"}}
    \cup {Instr("LD", lt, None, n) :
              lt \in {"A8FromA", "AFromA8", "A16FromA", "AFromA16", "HLFromSPE8", "A16FromSP"},
              n \in Imms}
    \cup {Instr("LD", "WordFromImm", d, n) : d \in Reg16Bit, n \in Imms}

ExecProgram ==
    {Instr(op, src, None, 0) : op \in ArithmeticOps, src \in Target8Bit}
    \cup {Instr(op, "N8", None, n) : op \in ArithmeticOps, n \in Imms}
    \cup {Instr("ADDHL", rr, None, 0) : rr \in Reg16Bit}
    \cup {Instr("ADDSP", None, None, n) : n \in Imms}
    \cup {Instr(op, t, None, 0) : op \in {"INC", "DEC"}, t \in IncDecTarget}
    \cup {Instr(op, t, None, 0) : op \in ShiftOps, t \in Target8Bit}
    \cup {[Instr(op, t, None, 0) EXCEPT !.n = position] :
              op \in {"BIT", "RES", "SET"}, position \in 0..7, t \in Target8Bit}
    \cup LoadProgram
    \cup {Instr(op, condition, None, n) :
              op \in {"CALL", "JP", "JR"}, condition \in JumpTest, n \in Imms}
    \cup {Instr("RET", condition, None, 0) : condition \in JumpTest}
    \cup {[Instr("RST", None, None, 0) EXCEPT !.n = 8 * k] : k \in 0..7}
    \cup {Instr(op, t, None, 0) : op \in {"POP", "PUSH"}, t \in StackTarget}
    \cup {Instr(op, None, None, 0) : op \in PlainOps}

\* a processor whose program has loaded BC, DE, HL and SP with RAM addresses,
\* stored a return address at 0xD000 and set the flags, IME, IE and IF
InitExec ==
    /\ is_halted = FALSE
    /\ call_stack = <<>>
    /\ last = [kind |-> "init"]
    /\ steps = 0
    /\ audio = AudioNew
    /\ ime \in BOOLEAN
    /\ \E z \in BOOLEAN, n \in BOOLEAN, h \in BOOLEAN, cy \in BOOLEAN, sp \in {\hD000, \hFFFF} :
           registers = [a |-> \h9A, f |-> [zero |-> z, subtract |-> n, half_carry |-> h,
                                           carry |-> cy],
                        b |-> \hC0, c |-> \h10, d |-> \hFF, e |-> \h85, h |-> \hC0, l |-> \h05,
                        pc |-> \h0100, sp |-> sp]
    /\ \E irq \in {0, 7} :
           mmu = [write_word(WriteByte(MmuNew("Classic"), \hC005, \h80), \hD000, \h1234)
                      EXCEPT !.interrupt_enable = irq, !.interrupt_flags = irq]

NextExec == \E instr \in ExecProgram : steps = 0 /\ Step(instr)

SpecExec == InitExec /\ [][NextExec]_vars

\* C3: a step() that returns has executed exactly one instruction (the cost
\* and effect of one execute() call), has serviced at most one interrupt and
\* returns a multiple of 4: the instruction's cost, plus 12 if an interrupt
\* was serviced.
C3_OneInstruction ==
    (last.kind = "step" /\ ~last.panicked)
    => LET e == Execute(last.pre, last.instr)
       IN  /\ last.exec_cycles = e.cycles
           /\ last.next_pc = e.next_pc
           /\ last.exec_cycles % 4 = 0
           /\ last.exec_cycles > 0
           /\ Len(last.vectors) <= 1
           /\ last.cycles = last.exec_cycles + 12 * Len(last.vectors)
           /\ last.cycles % 4 = 0
           /\ last.mid.registers = [e.c.registers EXCEPT
                                        !.pc = IF last.mid.is_halted THEN @ ELSE e.next_pc]
           /\ last.vectors = <<>> => registers = last.mid.registers

\* a step that executed a 16-bit increment and then serviced one interrupt
C3_Witness ==
    /\ last.kind = "step"
    /\ ~last.panicked
    /\ last.instr.op = "INC"
    /\ last.instr.x = "BC"
    /\ Len(last.vectors) = 1
    /\ last.cycles = 20

\* the step executed INC rr, DEC rr or ADD HL,rr
WordArithmetic ==
    /\ last.kind = "step"
    /\ ~last.panicked
    /\ \/ last.instr.op \in {"INC", "DEC"} /\ last.instr.x \in Reg16Bit
       \/ last.instr.op = "ADDHL"

\* the step executed ADD SP,e8 or LD HL,SP+e8
SpRelative ==
    /\ last.kind = "step"
    /\ ~last.panicked
    /\ \/ last.instr.op = "ADDSP"
       \/ last.instr.op = "LD" /\ last.instr.x = "HLFromSPE8"

\* C7 as stated: INC rr, DEC rr and ADD HL,rr leave the zero and subtract
\* flags exactly as they were before the instruction.
C7_AsStated ==
    WordArithmetic
    => /\ last.mid.registers.f.zero = last.pre.registers.f.zero
       /\ last.mid.registers.f.subtract = last.pre.registers.f.subtract

\* C7 (amended): INC rr and DEC rr leave all four flags as they were;
\* ADD HL,rr leaves the zero flag as it was and clears the subtract flag;
\* ADD SP,e8 and LD HL,SP+e8 clear both the zero and the subtract flag.
C7_WordFlags ==
    /\ (WordArithmetic /\ last.instr.op \in {"INC", "DEC"})
           => /\ last.mid.registers.f = last.pre.registers.f
              /\ Reg16(last.mid.registers, last.instr.x) =
                     (Reg16(last.pre.registers, last.instr.x)
                          + (IF last.instr.op = "INC" THEN 1 ELSE 65535)) % 65536
    /\ (WordArithmetic /\ last.instr.op = "ADDHL")
           => /\ last.mid.registers.f.zero = last.pre.registers.f.zero
              /\ ~last.mid.registers.f.subtract
              /\ get_hl(last.mid.registers) =
                     (get_hl(last.pre.registers) + Reg16(last.pre.registers, last.instr.x))
                         % 65536
    /\ SpRelative
           => /\ ~last.mid.registers.f.zero
              /\ ~last.mid.registers.f.subtract

\* ADD HL,rr executed with the subtract flag set and the zero flag set: the
\* zero flag survives, the subtract flag does not
C7_Witness ==
    /\ WordArithmetic
    /\ last.instr.op = "ADDHL"
    /\ last.pre.registers.f.subtract
    /\ last.pre.registers.f.zero
    /\ last.mid.registers.f.zero
    /\ ~last.mid.registers.f.subtract

\* whether the flags f satisfy the jump condition
ConditionHolds(f, condition) ==
    CASE condition = "NotZero" -> ~f.zero
      [] condition = "Zero" -> f.zero
      [] condition = "NotCarry" -> ~f.carry
      [] condition = "Carry" -> f.carry
      [] OTHER -> TRUE

\* the cost of a taken jump, call or return
TakenCost(instr) ==
    CASE instr.op = "JP" -> 16
      [] instr.op = "JR" -> 16
      [] instr.op = "CALL" -> 24
      [] OTHER -> IF instr.x = "Always" THEN 16 ELSE 20

\* the length of the instruction in bytes
BranchLength(instr) ==
    CASE instr.op = "JP" -> 3
      [] instr.op = "JR" -> 2
      [] instr.op = "CALL" -> 3
      [] OTHER -> 1

\* C8: for JP, JR, CALL and RET under every condition and flag state: when
\* the condition is false PC moves to the next sequential instruction, the
\* stack pointer, the call stack and RAM are untouched and the cost is
\* strictly below the taken cost; when it is true PC becomes the target (the
\* operand word for JP and CALL, PC + 2 + signed offset for JR, the popped
\* word for RET), CALL pushes the address of the next instruction and RET
\* pops two bytes.
C8_ConditionalBranch ==
    (last.kind = "step" /\ ~last.panicked /\ last.instr.op \in {"JP", "JR", "CALL", "RET"})
    => LET pre == last.pre.registers
           mid == last.mid.registers
           instr == last.instr
           offset == instr.imm % 256
       IN  IF ConditionHolds(pre.f, instr.x)
           THEN /\ last.exec_cycles = TakenCost(instr)
                /\ instr.op \in {"JP", "CALL"} => mid.pc = instr.imm
                /\ instr.op = "JR"
                       => mid.pc = (pre.pc + 2 + (IF offset < 128 THEN offset ELSE offset - 256)
                                        + 65536) % 65536
                /\ instr.op = "CALL"
                       => /\ mid.sp = (pre.sp + 65534) % 65536
                          /\ read_word(last.mid.mmu, mid.sp) = (pre.pc + 3) % 65536
                /\ instr.op = "RET"
                       => /\ mid.pc = read_word(last.pre.mmu, pre.sp)
                          /\ mid.sp = (pre.sp + 2) % 65536
                /\ instr.op # "CALL" => /\ last.mid.mmu.wram = last.pre.mmu.wram
                                        /\ last.mid.mmu.hram = last.pre.mmu.hram
                /\ mid.f = pre.f
           ELSE /\ mid.pc = (pre.pc + BranchLength(instr)) % 65536
                /\ mid.sp = pre.sp
                /\ last.mid.call_stack = last.pre.call_stack
                /\ last.mid.mmu.wram = last.pre.mmu.wram
                /\ last.mid.mmu.hram = last.pre.mmu.hram
                /\ mid = [pre EXCEPT !.pc = mid.pc]
                /\ last.exec_cycles < TakenCost(instr)
                /\ last.exec_cycles < Execute([last.pre EXCEPT !.registers.f.zero = ~@,
                                                              !.registers.f.carry = ~@],
                                              instr).cycles

\* CALL NZ with the zero flag set falls through for 12 cycles, stack untouched
C8_Witness ==
    /\ last.kind = "step"
    /\ ~last.panicked
    /\ last.instr.op = "CALL"
    /\ last.instr.x = "NotZero"
    /\ last.pre.registers.f.zero
    /\ last.mid.registers.pc = last.pre.registers.pc + 3
    /\ last.mid.registers.sp = last.pre.registers.sp
    /\ last.exec_cycles = 12

(***************************************************************************)
(* SpecRegs: the AF pair under POP AF, PUSH AF, set_af and flag-changing   *)
(* instructions.  The word on top of the stack is arbitrary in its low     *)
(* byte, so every byte reaches the flag register both ways.                *)
(***************************************************************************)
MaxRegOps == 3

RegsProgram ==
    {Instr("POP", "AF", None, 0), Instr("PUSH", "AF", None, 0), Instr("POP", "BC", None, 0),
     Instr("CCF", None, None, 0), Instr("ADD", "C", None, 0), Instr("DAA", None, None, 0)}

InitRegs ==
    /\ ime = FALSE
    /\ is_halted = FALSE
    /\ call_stack = <<>>
    /\ last = [kind |-> "init"]
    /\ steps = 0
    /\ audio = AudioNew
    /\ registers = [RegistersNew(FALSE, FALSE) EXCEPT !.sp = \hD000]
    /\ \E low \in Byte : mmu = write_word(MmuNew("Classic"), \hD000, \h1200 + low)

\* Registers::set_af called with the word at the bottom of the stack area
SetAf ==
    /\ steps < MaxRegOps
    /\ LET value == read_word(mmu, \hD000)
       IN  /\ registers' = set_af(registers, value)
           /\ last' = [kind |-> "set_af", value |-> value]
    /\ steps' = steps + 1
    /\ audio' = audio
    /\ UNCHANGED <<ime, is_halted, call_stack, mmu>>

RegsStep == \E instr \in RegsProgram : steps < MaxRegOps /\ Step(instr)

NextRegs == SetAf \/ RegsStep

SpecRegs == InitRegs /\ [][NextRegs]_vars

\* C5: the low nibble of the flag register is always zero: get_af() has its
\* low four bits clear in every state; set_af(v) and POP AF of the word v
\* leave AF = v & 0xFFF0; and every byte converted to flags and back gives
\* the byte with its low nibble cleared.
C5_LowNibbleZero ==
    /\ get_af(registers) % 16 = 0
    /\ FlagsToU8(registers.f) % 16 = 0
    /\ last.kind = "set_af" => get_af(registers) = last.value - (last.value % 16)
    /\ (last.kind = "step" /\ last.instr.op = "POP" /\ last.instr.x = "AF")
           => LET word == read_word(last.pre.mmu, last.pre.registers.sp)
              IN  get_af(last.mid.registers) = word - (word % 16)
    /\ steps = 0 => \A b \in Byte : FlagsToU8(FlagsFromU8(b)) = b - (b % 16)

\* POP AF of a word whose low nibble is 0xF: the flags read back as 0xF0
C5_Witness ==
    /\ last.kind = "step"
    /\ last.instr.op = "POP"
    /\ last.instr.x = "AF"
    /\ read_word(last.pre.mmu, last.pre.registers.sp) = \h12FF
    /\ get_af(registers) = \h12F0

(***************************************************************************)
(* SpecMmu: short sequences of write_byte and read_byte on the bus, over   *)
(* the first and last address of each working-RAM window, of the echo      *)
(* range and of high RAM, and the working-RAM bank register.               *)
(***************************************************************************)
MaxMmuOps == 3

RamProbes == {\hC000, \hCFFF, \hD000, \hDFFF, \hFF80, \hFFFE}

EchoProbes == {\hE000, \hEFFF, \hF000, \hFDFF}

MmuProbes == RamProbes \cup EchoProbes \cup {\hFF70}

\* bank numbers 0, 2 and 8 when written to 0xFF70, and a data byte
MmuValues == {0, 2, 8, \h5A}

InitMmu ==
    /\ InitCommon
    /\ registers = RegistersNew(FALSE, FALSE)

MmuWrite(addr, value) ==
    /\ steps < MaxMmuOps
    /\ ~mmu.fault
    /\ mmu' = WriteByte(mmu, addr, value)
    /\ last' = [kind |-> "write", addr |-> addr, value |-> value, pre |-> mmu]
    /\ steps' = steps + 1
    /\ audio' = audio
    /\ UNCHANGED <<registers, ime, is_halted, call_stack>>

MmuRead(addr) ==
    /\ steps < MaxMmuOps
    /\ ~mmu.fault
    /\ mmu' = IF ReadPanics(mmu, addr) THEN [mmu EXCEPT !.fault = TRUE] ELSE mmu
    /\ last' = [kind |-> "read", addr |-> addr,
                value |-> IF ReadPanics(mmu, addr) THEN 0 ELSE ReadByte(mmu, addr), pre |-> mmu]
    /\ steps' = steps + 1
    /\ audio' = audio
    /\ UNCHANGED <<registers, ime, is_halted, call_stack>>

NextMmu ==
    \/ \E addr \in MmuProbes, value \in MmuValues : MmuWrite(addr, value)
    \/ \E addr \in MmuProbes : MmuRead(addr)

SpecMmu == InitMmu /\ [][NextMmu]_vars

\* C9 as stated: after write_byte(addr, v) on a working-RAM or high-RAM
\* address, read_byte(addr) returns v without a panic and every other
\* working-RAM or high-RAM address reads what it read before the write.
C9_RoundTrip ==
    (last.kind = "write" /\ last.addr \in RamProbes)
    => /\ ~mmu.fault
       /\ ~ReadPanics(mmu, last.addr)
       /\ ReadByte(mmu, last.addr) = last.value
       /\ \A other \in RamProbes \ {last.addr} :
              ReadByte(mmu, other) = ReadByte(last.pre, other)

\* C10 as stated: every echo address reads the working-RAM byte it aliases,
\* taken either way the sentence can be read: the byte of bank 0 at the same
\* offset within the 4 KiB window, or the byte at the address 0x2000 below;
\* whatever bank 0xFF70 selects.
C10_EchoMirror ==
    ~mmu.fault
    => \A a \in EchoProbes :
           \/ ReadByte(mmu, a) = ArrayGet(mmu.wram, <<0, (a - \hE000) % \h1000>>)
           \/ /\ ~ReadPanics(mmu, a - \h2000)
              /\ ReadByte(mmu, a) = ReadByte(mmu, a - \h2000)

\* C12 as stated: in every state reached by bus writes, the byte written to
\* the working-RAM bank register included, no write has panicked and a read
\* of any probed address completes without an out-of-range access.
C12_NoPanic ==
    /\ ~mmu.fault
    /\ \A a \in MmuProbes : ~ReadPanics(mmu, a)

(***************************************************************************)
(* SpecBus: write_byte, read_byte and step(cycles) on the bus, with the    *)
(* display on, the timer one tick from overflow and a cartridge image      *)
(* whose first 256 bytes differ from the boot ROM.  The PPU starts where   *)
(* the write that turns the display on leaves it, in line 0 or (143 lines  *)
(* of 456 dots later) in line 143.                                         *)
(***************************************************************************)
\* cycle counts of instructions and of interrupt dispatch, the 80 dots of
\* one loop iteration of PPU::step, and one full line
BusCycles == {4, 12, 16, 80, 456}

BusWriteProbes == {\hFF50, \hFF0F, \hFF45, \h0000}

BusReadProbes == {\h0000, \h00FF}

BusValues == {0, 1, \h10}

StartLines == {0, 143}

\* STAT interrupt sources: none, or every mode and the line compare
StatBytes == {0, \h78}

BusImage == ArrayPut(ArrayPut(ZeroArray, 0, \hC3), \hFF, \h7E)

\* the bus after the program has set STAT, turned the display on (LCDC =
\* 0x91) and, when armed, started the timer at TAC = 5 with TIMA = 0xFF
BusStart(stat, armed, line) ==
    LET m0 == [MmuNew("Classic") EXCEPT !.cartridge.rom = BusImage]
        m1 == WriteByte(WriteByte(m0, \hFF41, stat), \hFF40, \h91)
        m2 == IF armed THEN WriteByte(WriteByte(m1, \hFF07, 5), \hFF05, \hFF) ELSE m1
    IN  [m2 EXCEPT !.ppu.ly = line,
                   !.ppu.screen_buffer.drawn = {l \in 0 .. 143 : l < line}]

InitBus ==
    /\ ime = FALSE
    /\ is_halted = FALSE
    /\ call_stack = <<>>
    /\ registers = RegistersNew(FALSE, FALSE)
    /\ \E stat \in StatBytes, armed \in BOOLEAN, line \in StartLines :
           mmu = BusStart(stat, armed, line)
    /\ last = [kind |-> "init"]
    /\ steps = 0
    /\ audio = AudioNew

BusStep(cycles) ==
    /\ steps < MaxMmuOps
    /\ ~mmu.fault
    /\ mmu' = MmuStep(mmu, cycles)
    /\ last' = [kind |-> "step", addr |-> 0, value |-> cycles, pre |-> mmu]
    /\ steps' = steps + 1
    /\ audio' = audio
    /\ UNCHANGED <<registers, ime, is_halted, call_stack>>

NextBus ==
    \/ \E cycles \in BusCycles : BusStep(cycles)
    \/ \E addr \in BusWriteProbes, value \in BusValues : MmuWrite(addr, value)
    \/ \E addr \in BusReadProbes : MmuRead(addr)

SpecBus == InitBus /\ [][NextBus]_vars

\* last is a write to the boot-ROM disable register
DisableWrite(l) == l.kind = "write" /\ l.addr = \hFF50

\* C13: the overlay is mapped from construction; it stays mapped exactly
\* until a write to 0xFF50 and no read, write or step maps it again; a read
\* of 0x0000-0x00FF returns the boot-ROM byte while it is mapped and the
\* cartridge byte afterwards.
C13_BootOverlay ==
    /\ [](steps = 0 => mmu.boot_rom)
    /\ [][/\ mmu'.boot_rom = (mmu.boot_rom /\ ~DisableWrite(last'))
          /\ (last'.kind = "read" /\ last'.addr <= \hFF)
                 => /\ ~mmu'.fault
                    /\ last'.value = IF mmu.boot_rom
                                     THEN BOOT_ROM[last'.addr + 1]
                                     ELSE CartridgeReadRom(mmu.cartridge, last'.addr)]_vars

\* after the overlay was disabled, a read of 0x0000 returned the cartridge's
\* byte, which is not the boot ROM's
C13_Witness ==
    /\ last.kind = "read"
    /\ last.addr = 0
    /\ ~mmu.boot_rom
    /\ last.value = \hC3
    /\ BOOT_ROM[1] # \hC3

\* cycles counted by the timer since the divider was last cleared, modulo 2^16
TimerTicks(t) == t.divider * 256 + t.internal_divider

\* dots counted by the PPU within the frame of 154 lines of 456 dots
FrameDots(p) == p.ly * 456 + p.dots

\* C14: after step(cycles) the timer has counted cycles more ticks and the
\* PPU cycles more dots; IF is the old IF with the bits the timer and the
\* PPU hold after their own step (raised during it or left by an earlier
\* write) OR-ed in, so no pending bit is lost; both local fields are zero,
\* so a raised bit is merged by one step only.
C14_StepMerges ==
    last.kind = "step"
    => LET pre == last.pre
           t == TimerStep(pre.timer, last.value)
           p == PpuStep(pre.ppu, last.value)
       IN  /\ (TimerTicks(mmu.timer) - TimerTicks(pre.timer) - last.value) % 65536 = 0
           /\ (FrameDots(mmu.ppu) - FrameDots(pre.ppu) - last.value) % (154 * 456) = 0
           /\ mmu.interrupt_flags = Or8(Or8(pre.interrupt_flags, t.interrupt), p.interrupt)
           /\ And8(mmu.interrupt_flags, pre.interrupt_flags) = pre.interrupt_flags
           /\ mmu.timer.interrupt = 0
           /\ mmu.ppu.interrupt = 0
           /\ MmuStep(mmu, 0).interrupt_flags = mmu.interrupt_flags

\* a step in which the timer overflowed and the PPU entered vertical blank
\* while the joypad bit was already pending: all three are pending after it
C14_Witness ==
    /\ last.kind = "step"
    /\ last.pre.interrupt_flags = \h10
    /\ TimerStep(last.pre.timer, last.value).interrupt = 4
    /\ IsSet(PpuStep(last.pre.ppu, last.value).interrupt, 0)
    /\ And8(mmu.interrupt_flags, \h15) = \h15

(***************************************************************************)
(* SpecDma: the VRAM DMA registers 0xFF51-0xFF55 written through the bus,  *)
(* and step(cycles), with the display on.  Nothing in the program calls    *)
(* perform_vram_dma, so no action does.                                    *)
(***************************************************************************)
DmaRegisters == {\hFF51, \hFF52, \hFF53, \hFF54, \hFF55}

\* as source high byte: ROM, VRAM, working RAM and 0xF000; as destination
\* 0x1F/0xF0 is the last row of VRAM; as trigger: general-purpose and
\* horizontal-blank transfers of one and two rows
DmaValues == {\h00, \h01, \h80, \h81, \hC0, \h1F, \hF0}

\* 252 cycles take the PPU from dot 4 into horizontal blank
DmaCycles == {80, 252}

InitDma ==
    /\ ime = FALSE
    /\ is_halted = FALSE
    /\ call_stack = <<>>
    /\ registers = RegistersNew(FALSE, FALSE)
    /\ mmu = BusStart(0, FALSE, 0)
    /\ last = [kind |-> "init"]
    /\ steps = 0
    /\ audio = AudioNew

NextDma ==
    \/ \E addr \in DmaRegisters, value \in DmaValues : MmuWrite(addr, value)
    \/ \E cycles \in DmaCycles : BusStep(cycles)

SpecDma == InitDma /\ [][NextDma]_vars

\* last is a write to the DMA trigger register that did not panic
TriggerWrite == last.kind = "write" /\ last.addr = \hFF55 /\ ~mmu.fault

\* C15 as stated: a trigger write with bit 7 clear while a horizontal-blank
\* DMA is active makes the DMA inactive and leaves source, destination and
\* remaining length as they were.
C15_CancelOnBit7Clear ==
    (TriggerWrite /\ last.pre.hdma_status = "HDMA" /\ ~IsSet(last.value, 7))
    => /\ mmu.hdma_status = "NoDMA"
       /\ mmu.hdma_src = last.pre.hdma_src
       /\ mmu.hdma_dst = last.pre.hdma_dst
       /\ mmu.hdma_len = last.pre.hdma_len

\* the source and destination the registers 0xFF51-0xFF54 of m program
ProgrammedSrc(m) == m.hdma[1] * 256 + m.hdma[2]

ProgrammedDst(m) == \h8000 + m.hdma[3] * 256 + m.hdma[4]

\* C16 as stated: when a trigger write with bit 7 clear and no DMA active
\* returns, the (L+1)*16 bytes at the programmed source have been copied to
\* the programmed destination and the DMA is inactive.
C16_GdmaCopies ==
    (TriggerWrite /\ last.pre.hdma_status = "NoDMA" /\ ~IsSet(last.value, 7))
    => /\ mmu.hdma_status = "NoDMA"
       /\ \A i \in 0 .. ((last.value % 128) + 1) * 16 - 1 :
              ReadByte(mmu, ProgrammedDst(last.pre) + i)
                  = ReadByte(last.pre, ProgrammedSrc(last.pre) + i)

\* the PPU is in horizontal blank after a step that entered mode 0
EnteredHblank ==
    last.kind = "step" /\ mmu.ppu.hblank /\ mmu.ppu.mode = 0 /\ last.pre.ppu.mode # 0

\* C18 as stated: a step that enters horizontal blank while a
\* horizontal-blank DMA is active copies one row: source and destination
\* advance by 16, the 16 source bytes are in VRAM, the remaining length
\* drops by one, and after the row that finds it 0 the DMA is inactive.
C18_RowPerHblank ==
    (EnteredHblank /\ last.pre.hdma_status = "HDMA")
    => /\ mmu.hdma_src = last.pre.hdma_src + 16
       /\ mmu.hdma_dst = last.pre.hdma_dst + 16
       /\ \A i \in 0 .. 15 :
              ReadByte(mmu, last.pre.hdma_dst + i) = ReadByte(last.pre, last.pre.hdma_src + i)
       /\ mmu.hdma_len = (last.pre.hdma_len + 127) % 128
       /\ (last.pre.hdma_len = 0) => mmu.hdma_status = "NoDMA"

\* last is a write to the DMA trigger register while no horizontal-blank
\* DMA was active, so the arm went on to the source check
TriggerChecked ==
    last.kind = "write" /\ last.addr = \hFF55 /\ last.pre.hdma_status # "HDMA"

\* C19 as stated: a trigger with the programmed source in 0x8000-0xDFF0
\* panics and changes nothing.
C19_AsStated ==
    (TriggerChecked /\ InRange(ProgrammedSrc(last.pre), \h8000, \hDFF0))
    => mmu = [last.pre EXCEPT !.fault = TRUE]

\* C19: the trigger panics exactly for a programmed source in 0x7FF1-0x9FFF
\* or above 0xDFF0 (cartridge RAM and working RAM, 0xA000-0xDFF0, are
\* accepted), and a refused trigger leaves every DMA field and every byte
\* as it was; while a horizontal-blank DMA is active the source is not
\* looked at and the write never panics.
C19_IllegalSource ==
    /\ TriggerChecked
           => /\ mmu.fault <=> \/ InRange(ProgrammedSrc(last.pre), \h7FF1, \h9FFF)
                               \/ ProgrammedSrc(last.pre) > \hDFF0
              /\ mmu.fault => mmu = [last.pre EXCEPT !.fault = TRUE]
              /\ ~mmu.fault => /\ mmu.hdma_src = ProgrammedSrc(last.pre)
                               /\ mmu.hdma_status # "NoDMA"
    /\ (last.kind = "write" /\ last.addr = \hFF55 /\ last.pre.hdma_status = "HDMA")
           => ~mmu.fault

\* a trigger with the source programmed to 0x8000 ended the session with
\* the DMA still inactive
C19_Witness ==
    /\ TriggerChecked
    /\ ProgrammedSrc(last.pre) = \h8000
    /\ mmu.fault
    /\ mmu.hdma_status = "NoDMA"

(***************************************************************************)
(* SpecDmaRow: the transfer functions taken on their own.  The program     *)
(* never calls perform_vram_dma; here it is called, between steps of the   *)
(* bus, on a transfer that the trigger register accepted.                  *)
(***************************************************************************)
\* source high bytes: ROM and working RAM
RowSources == {\h00, \hC0}

\* destination high/low bytes: the first row of VRAM, the last and the one before
RowDestinations == {<<\h00, \h00>>, <<\h1F, \hE0>>, <<\h1F, \hF0>>}

\* one or two rows, general-purpose or horizontal-blank
RowTriggers == {\h00, \h01, \h80, \h81}

InitDmaRow ==
    /\ ime = FALSE
    /\ is_halted = FALSE
    /\ call_stack = <<>>
    /\ registers = RegistersNew(FALSE, FALSE)
    /\ \E src \in RowSources, dst \in RowDestinations, trigger \in RowTriggers :
           mmu = WriteByte(WriteByte(WriteByte(WriteByte(
                     BusStart(0, FALSE, 0), \hFF51, src), \hFF53, dst[1]), \hFF54, dst[2]),
                     \hFF55, trigger)
    /\ last = [kind |-> "init"]
    /\ steps = 0
    /\ audio = AudioNew

DmaService ==
    /\ steps < MaxMmuOps
    /\ ~mmu.fault
    /\ mmu' = perform_vram_dma(mmu)
    /\ last' = [kind |-> "dma", addr |-> mmu.hdma_dst, value |-> 0, pre |-> mmu]
    /\ steps' = steps + 1
    /\ audio' = audio
    /\ UNCHANGED <<registers, ime, is_halted, call_stack>>

NextDmaRow ==
    \/ DmaService
    \/ \E cycles \in DmaCycles : BusStep(cycles)

SpecDmaRow == InitDmaRow /\ [][NextDmaRow]_vars

PpuCycles == {4, 76, 80, 172, 204}

\* display off, display on
LcdcValues == {\h11, \h91}

NextPpu ==
    \/ \E cycles \in PpuCycles : BusStep(cycles)
    \/ \E value \in LcdcValues : MmuWrite(\hFF40, value)

SpecPpu == InitBus /\ [][NextPpu]_vars

\* C20 as stated: after a step that leaves the display on in a line below
\* 144, the mode is 2 for dots 0-79, 3 for dots 80-251 and 0 for dots
\* 252-455, and the dot counter is below 456, the line having moved on
\* when it reached 456.
C20_ModeFromDots ==
    (last.kind = "step" /\ mmu.ppu.lcd_on /\ mmu.ppu.ly < 144)
    => /\ mmu.ppu.dots < 456
       /\ mmu.ppu.mode = CASE mmu.ppu.dots < 80 -> 2
                           [] mmu.ppu.dots < 252 -> 3
                           [] OTHER -> 0
       /\ FrameDots(mmu.ppu) = (FrameDots(last.pre.ppu) + last.value) % (154 * 456)

(***************************************************************************)
(* SpecMbc: a cartridge with a banking controller behind the bus.  The     *)
(* controller is driven through the Cartridge methods (write_rom,          *)
(* write_ram, read_ram) and through the bus (write_byte, read_byte) on the *)
(* first and last cartridge-RAM address.                                   *)
(***************************************************************************)
\* header byte 0x147: no controller, MBC1, MBC1 with RAM and battery, MBC3
\* with timer and battery, MBC3 with RAM and battery
CartTypes == {\h00, \h01, \h03, \h0F, \h13}

\* a ROM image that tells its banks apart: byte 0 of bank b is b + 1
BankImage == [a \in {b * \h4000 : b \in 0 .. 127} |-> (a \div \h4000) + 1]

\* header byte 0x149: no RAM, 1, 2, 4, 16 and 8 banks
RamCodes == 0 .. 5

\* header byte 0x148: 4 and 64 ROM banks
RomCodes == {1, 5}

CartRamProbes == {\h0000, \h1FFF}

BusRamProbes == {\hA000, \hBFFF}

\* one address of each controller register range
CartRomProbes == {\h0000, \h2000, \h4000, \h6000}

\* enable (0x0A), disable, bank numbers, clock-register select (bit 3)
CartValues == {0, 1, \h0A, \h0B}

InitMbc ==
    /\ ime = FALSE
    /\ is_halted = FALSE
    /\ call_stack = <<>>
    /\ registers = RegistersNew(FALSE, FALSE)
    /\ \E type \in CartTypes, rom_code \in RomCodes, ram_code \in RamCodes :
           mmu = [MmuNew("Classic") EXCEPT
                      !.cartridge = [new_mbc(type, rom_code, ram_code) EXCEPT !.rom = BankImage]]
    /\ last = [kind |-> "init"]
    /\ steps = 0
    /\ audio = AudioNew

CartWriteRom(address, value) ==
    /\ steps < MaxMmuOps
    /\ ~mmu.fault
    /\ ~mmu.cartridge.fault
    /\ mmu' = [mmu EXCEPT !.cartridge = CartridgeWriteRom(mmu.cartridge, address, value)]
    /\ last' = [kind |-> "write_rom", addr |-> address, value |-> value, pre |-> mmu]
    /\ steps' = steps + 1
    /\ audio' = audio
    /\ UNCHANGED <<registers, ime, is_halted, call_stack>>

CartWriteRam(address, value) ==
    /\ steps < MaxMmuOps
    /\ ~mmu.fault
    /\ ~mmu.cartridge.fault
    /\ mmu' = [mmu EXCEPT !.cartridge = CartridgeWriteRam(mmu.cartridge, address, value)]
    /\ last' = [kind |-> "write_ram", addr |-> address, value |-> value, pre |-> mmu]
    /\ steps' = steps + 1
    /\ audio' = audio
    /\ UNCHANGED <<registers, ime, is_halted, call_stack>>

CartReadRam(address) ==
    /\ steps < MaxMmuOps
    /\ ~mmu.fault
    /\ ~mmu.cartridge.fault
    /\ mmu' = IF CartridgeReadRamPanics(mmu.cartridge, address)
              THEN [mmu EXCEPT !.cartridge.fault = TRUE]
              ELSE mmu
    /\ last' = [kind |-> "read_ram", addr |-> address,
                value |-> IF CartridgeReadRamPanics(mmu.cartridge, address)
                          THEN 0
                          ELSE CartridgeReadRam(mmu.cartridge, address),
                pre |-> mmu]
    /\ steps' = steps + 1
    /\ audio' = audio
    /\ UNCHANGED <<registers, ime, is_halted, call_stack>>

NextMbc ==
    \/ \E address \in CartRomProbes, value \in CartValues : CartWriteRom(address, value)
    \/ \E address \in CartRamProbes, value \in MmuValues : CartWriteRam(address, value)
    \/ \E address \in CartRamProbes : CartReadRam(address)
    \/ \E addr \in BusRamProbes, value \in MmuValues : MmuWrite(addr, value)
    \/ \E addr \in BusRamProbes : MmuRead(addr)

SpecMbc == InitMbc /\ [][NextMbc]_vars

\* the controller holds RAM, it is enabled and a RAM bank (not a clock
\* register) is mapped
RamMapped(c) == c.ram_enabled /\ c.ram_bank_count > 0 /\ ~c.rtc_selected

\* C11 as stated: with cartridge RAM enabled, a byte written to a
\* cartridge-RAM address, through the bus or through the cartridge, is the
\* byte the next read of that address returns, and neither access panics.
C11_CartridgeRamRoundTrip ==
    /\ (last.kind = "write" /\ RamMapped(mmu.cartridge))
           => /\ ~mmu.fault
              /\ ~ReadPanics(mmu, last.addr)
              /\ ReadByte(mmu, last.addr) = last.value
    /\ (last.kind = "write_ram" /\ RamMapped(mmu.cartridge))
           => /\ ~mmu.cartridge.fault
              /\ ~CartridgeReadRamPanics(mmu.cartridge, last.addr)
              /\ CartridgeReadRam(mmu.cartridge, last.addr) = last.value

(***************************************************************************)
(* SpecFrame: the PPU around the end of a frame.  The bus starts with the  *)
(* display on in line 0 or 143, or in vertical blank in line 144 or 153    *)
(* with the pending interrupts already served; then step(cycles) and       *)
(* writes of IF, LCDC, STAT and LYC.                                       *)
(***************************************************************************)
\* 452 cycles take the PPU from dot 4 to dot 0 of the next line
FrameCycles == {4, 452, 456}

VblankLines == {144, 153}

\* the bus one line after BusStart in line 143: vertical blank has been
\* entered; lines later nothing but ly has changed, and IF has been served
VblankStart(stat, line) ==
    LET m == MmuStep(BusStart(stat, FALSE, 143), 456)
    IN  [m EXCEPT !.ppu.ly = line, !.interrupt_flags = 0]

\* LYC values met by the increment to 144, by the wrap to 0, and one in between
LycValues == {0, 1, 144}

\* STAT: no source, the line compare only, every source
StatValues == {0, \h40, \h78}

InitFrame ==
    /\ ime = FALSE
    /\ is_halted = FALSE
    /\ call_stack = <<>>
    /\ registers = RegistersNew(FALSE, FALSE)
    /\ \/ \E stat \in StatBytes, line \in StartLines : mmu = BusStart(stat, FALSE, line)
       \/ \E stat \in StatBytes, line \in VblankLines : mmu = VblankStart(stat, line)
    /\ last = [kind |-> "init"]
    /\ steps = 0
    /\ audio = AudioNew

\* GameWindow::show, frame upload: once a frame's worth of cycles has run
\* (ready) and the flag is set, the frame buffer is copied to the texture
\* and the flag is cleared
ShowUploads(p, ready) == ready /\ p.screen_buffer_updated

\* a plausible slip: the frame is uploaded but the flag is left set
ShowPpuKeepsFlag(p, ready) == p

ShowPpu(p, ready) ==
    IF ShowUploads(p, ready) THEN [p EXCEPT !.screen_buffer_updated = FALSE] ELSE p

ConsumerShow(ready) ==
    /\ steps < MaxMmuOps
    /\ ~mmu.fault
    /\ mmu' = [mmu EXCEPT !.ppu = ShowPpu(mmu.ppu, ready)]
    /\ last' = [kind |-> "show", addr |-> 0,
                value |-> IF ShowUploads(mmu.ppu, ready) THEN 1 ELSE 0, pre |-> mmu,
                texture |-> IF ShowUploads(mmu.ppu, ready)
                            THEN mmu.ppu.screen_buffer
                            ELSE [fill |-> 0, drawn |-> {}]]
    /\ steps' = steps + 1
    /\ audio' = audio
    /\ UNCHANGED <<registers, ime, is_halted, call_stack>>

NextFrame ==
    \/ \E cycles \in FrameCycles : BusStep(cycles)
    \/ MmuWrite(\hFF0F, 0)
    \/ \E value \in LcdcValues : MmuWrite(\hFF40, value)
    \/ \E value \in StatValues : MmuWrite(\hFF41, value)
    \/ \E value \in LycValues : MmuWrite(\hFF45, value)
    \/ \E ready \in BOOLEAN : ConsumerShow(ready)

SpecFrame == InitFrame /\ [][NextFrame]_vars

\* last is a step taken with the display on
LcdStep == last.kind = "step" /\ last.pre.ppu.lcd_on

\* the step went from a visible line into the vertical-blank lines
EnteredVblank == LcdStep /\ last.pre.ppu.ly < 144 /\ mmu.ppu.ly >= 144

\* C21: with the display on the line is in 0..153 and a step moves the dot
\* position within the frame by its cycles modulo 154 lines (153 wraps to
\* 0); the mode is 1 exactly in lines 144..153; a step newly sets the
\* vblank bit of IF exactly when it goes from a line below 144 to line 144,
\* and then the STAT bit too if the mode-1 source is enabled.
C21_VblankOncePerFrame ==
    /\ mmu.ppu.lcd_on
           => /\ mmu.ppu.ly \in 0 .. 153
              /\ (mmu.ppu.mode = 1) <=> (mmu.ppu.ly \in 144 .. 153)
    /\ LcdStep
           => /\ FrameDots(mmu.ppu) = (FrameDots(last.pre.ppu) + last.value) % (154 * 456)
              /\ IsSet(mmu.interrupt_flags, 0)
                     <=> (IsSet(last.pre.interrupt_flags, 0) \/ EnteredVblank)
              /\ (EnteredVblank /\ mmu.ppu.mode_1_interrupt) => IsSet(mmu.interrupt_flags, 1)

\* a step wrapped from line 153 to line 0 without raising the vblank bit
C21_Witness ==
    /\ LcdStep
    /\ last.pre.ppu.ly = 153
    /\ mmu.ppu.ly = 0
    /\ mmu.ppu.mode = 2
    /\ ~IsSet(mmu.interrupt_flags, 0)

\* last is a write to LYC
LycWrite == last.kind = "write" /\ last.addr = \hFF45

\* the step changed the line
LineChanged == LcdStep /\ mmu.ppu.ly # last.pre.ppu.ly

\* no mode source of the STAT interrupt is enabled
ModeSourcesOff(p) == ~p.mode_0_interrupt /\ ~p.mode_1_interrupt /\ ~p.mode_2_interrupt

\* C22: when a step changes the line to LYC, or LYC is written with the
\* current line, while the line-compare source is enabled, the STAT bit is
\* raised (in IF by the step, in the PPU's interrupt field by the write);
\* with the mode sources off, the STAT bit is newly raised only then.
C22_LineCompare ==
    /\ (LineChanged /\ mmu.ppu.lyc_interrupt /\ mmu.ppu.ly = mmu.ppu.lyc)
           => IsSet(mmu.interrupt_flags, 1)
    /\ (LycWrite /\ mmu.ppu.lyc_interrupt /\ mmu.ppu.ly = last.value)
           => IsSet(mmu.ppu.interrupt, 1)
    /\ (LcdStep /\ ModeSourcesOff(mmu.ppu) /\ IsSet(mmu.interrupt_flags, 1)
            /\ ~IsSet(last.pre.interrupt_flags, 1) /\ ~IsSet(last.pre.ppu.interrupt, 1))
           => LineChanged /\ mmu.ppu.lyc_interrupt /\ mmu.ppu.ly = mmu.ppu.lyc
    /\ (LycWrite /\ IsSet(mmu.ppu.interrupt, 1) /\ ~IsSet(last.pre.ppu.interrupt, 1))
           => mmu.ppu.lyc_interrupt /\ mmu.ppu.ly = last.value

\* with only the line compare enabled and LYC = 0, the wrap from line 153
\* to line 0 raised the STAT bit
C22_Witness ==
    /\ LineChanged
    /\ last.pre.ppu.ly = 153
    /\ mmu.ppu.ly = 0
    /\ mmu.ppu.lyc = 0
    /\ mmu.ppu.lyc_interrupt
    /\ ModeSourcesOff(mmu.ppu)
    /\ ~IsSet(last.pre.interrupt_flags, 1)
    /\ IsSet(mmu.interrupt_flags, 1)

\* last is a write to LCDC
LcdcWrite == last.kind = "write" /\ last.addr = \hFF40

\* C23: an LCDC write that turns the display off zeroes the dot counter,
\* the line and the mode, clears the window trigger and leaves the frame
\* buffer all 255; one that turns it on leaves mode 2 at dot 4; one that
\* keeps bit 7 leaves dot counter, line and mode as they were.
C23_LcdcSwitch ==
    LcdcWrite
    => LET before == last.pre.ppu
           after == mmu.ppu
       IN  /\ after.lcd_on = IsSet(last.value, 7)
           /\ (before.lcd_on /\ ~after.lcd_on)
                  => /\ after.dots = 0 /\ after.ly = 0 /\ after.mode = 0
                     /\ ~after.wy_trigger
                     /\ after.screen_buffer = [fill |-> 255, drawn |-> {}]
           /\ (~before.lcd_on /\ after.lcd_on)
                  => after.mode = 2 /\ after.dots = 4 /\ after.ly = before.ly
           /\ (before.lcd_on = after.lcd_on)
                  => /\ after.dots = before.dots
                     /\ after.ly = before.ly
                     /\ after.mode = before.mode

\* the display was turned off in the middle of line 144, in vertical blank
C23_Witness ==
    /\ LcdcWrite
    /\ last.pre.ppu.lcd_on
    /\ last.pre.ppu.ly = 144
    /\ last.pre.ppu.dots > 0
    /\ last.pre.ppu.mode = 1
    /\ ~mmu.ppu.lcd_on
    /\ mmu.ppu.dots = 0

\* C24: the core (step and register writes) sets the frame flag exactly
\* when a step enters vertical blank and never clears it; the consumer
\* clears it exactly when it uploads, and what it uploads is the frame
\* buffer as it stands at that moment, whatever number of frames set the
\* single flag before.
C24_FrameFlag ==
    /\ last.kind \in {"step", "write"}
           => (mmu.ppu.screen_buffer_updated
                   <=> (last.pre.ppu.screen_buffer_updated \/ EnteredVblank))
    /\ last.kind = "show"
           => /\ mmu.ppu.screen_buffer = last.pre.ppu.screen_buffer
              /\ last.value = 1 => /\ last.pre.ppu.screen_buffer_updated
                                   /\ ~mmu.ppu.screen_buffer_updated
                                   /\ last.texture = last.pre.ppu.screen_buffer
              /\ last.value = 0 => mmu.ppu.screen_buffer_updated
                                       = last.pre.ppu.screen_buffer_updated

\* the consumer uploaded the frame completed by the entry into line 144
\* and cleared the flag
C24_Witness ==
    /\ last.kind = "show"
    /\ last.value = 1
    /\ last.pre.ppu.ly = 144
    /\ 143 \in last.texture.drawn
    /\ ~mmu.ppu.screen_buffer_updated

(***************************************************************************)
(* SpecBank: the controller registers.  write_rom on one address of each   *)
(* register range, write_ram and read_ram on the first and last            *)
(* cartridge-RAM address, on every controller new_mbc builds.              *)
(***************************************************************************)
\* enable (0x0A), disable, bank numbers (4 is the bank count of ROM size
\* code 1; 0x20 and 0x80 have the low five, or seven, bits zero),
\* clock-register select (bit 3)
BankValues == {0, 1, 3, 4, \h0A, \h0B, \h20, \h80}

BankData == {\h5A}

NextBank ==
    \/ \E address \in CartRomProbes, value \in BankValues : CartWriteRom(address, value)
    \/ \E address \in CartRamProbes, value \in BankData : CartWriteRam(address, value)
    \/ \E address \in CartRamProbes : CartReadRam(address)

SpecBank == InitMbc /\ [][NextBank]_vars

\* last is a write_rom to the ROM bank-select range of controller kind
BankSelectWrite(kind) ==
    /\ last.kind = "write_rom"
    /\ InRange(last.addr, \h2000, \h3FFF)
    /\ mmu.cartridge.kind = kind

\* the ROM bank that a read of 0x4000-0x7FFF comes from: byte 0 of bank b
\* of the image is b + 1, and a bank beyond the image reads 0xFF
BankRead(c) == CartridgeReadRom(c, \h4000) - 1

\* C25 as stated: a bank-select write with the bank bits zero selects bank
\* 1, and after any bank-select write reads of 0x4000-0x7FFF do not come
\* from bank 0.
C25_AsStated ==
    /\ (BankSelectWrite("MBC1") /\ (last.value % 32) = 0)
           => (mmu.cartridge.selected_rom_bank % 32) = 1
    /\ (BankSelectWrite("MBC3") /\ (last.value % 128) = 0)
           => mmu.cartridge.selected_rom_bank = 1
    /\ (BankSelectWrite("MBC1") \/ BankSelectWrite("MBC3"))
           => BankRead(mmu.cartridge) # 0

\* C25: a bank-select write with the bank bits zero selects a bank whose
\* low bits are 1 (MBC1: low five bits, the two upper bits kept; MBC3: bank
\* 1) and reads of 0x4000-0x7FFF come from that bank; on MBC3 no
\* bank-select write ever selects bank 0; on MBC1 a write selects bank 0
\* exactly when the number written, zero taken as 1, OR-ed with the upper
\* bits, is a multiple of the declared bank count.
C25_ZeroSelectsOne ==
    /\ (BankSelectWrite("MBC1") /\ (last.value % 32) = 0)
           => /\ (mmu.cartridge.selected_rom_bank % 32) = 1
              /\ BankRead(mmu.cartridge) = mmu.cartridge.selected_rom_bank
    /\ BankSelectWrite("MBC3")
           => /\ mmu.cartridge.selected_rom_bank
                     = IF (last.value % 128) = 0 THEN 1 ELSE last.value % 128
              /\ mmu.cartridge.selected_rom_bank # 0
              /\ CartridgeReadRom(mmu.cartridge, \h4000) # 1
    /\ BankSelectWrite("MBC1")
           => LET upper == last.pre.cartridge.selected_rom_bank
                               - (last.pre.cartridge.selected_rom_bank % 32)
                  lower == IF (last.value % 32) = 0 THEN 1 ELSE last.value % 32
              IN  (mmu.cartridge.selected_rom_bank = 0)
                      <=> ((upper + lower) % mmu.cartridge.rom_bank_count) = 0

\* 0x20 written to the bank-select register of an MBC1 selected bank 1,
\* and 0x4000 reads the first byte of bank 1
C25_Witness ==
    /\ BankSelectWrite("MBC1")
    /\ last.value = \h20
    /\ mmu.cartridge.selected_rom_bank = 1
    /\ CartridgeReadRom(mmu.cartridge, \h4000) = 2

\* the ROM bank count the cartridge header declares (the image holds that many banks)
DeclaredRomBanks(c) == c.rom_len \div \h4000

\* last is a write to the register ranges 0x0000-0x7FFF of a banked controller
RegisterWrite ==
    /\ last.kind = "write_rom"
    /\ mmu.cartridge.kind \in {"MBC1", "MBC3"}

\* C26: after a write to the register ranges of the linear-banking or the
\* clock-bearing controller the selected ROM bank is below the declared ROM
\* bank count, the selected RAM bank is below the declared RAM bank count
\* (where the cartridge declares RAM), and the write did not fault.
C26_BanksWithinCounts ==
    RegisterWrite
        => /\ ~mmu.cartridge.fault
           /\ mmu.cartridge.selected_rom_bank < DeclaredRomBanks(mmu.cartridge)
           /\ mmu.cartridge.ram_bank_count > 0
                  => mmu.cartridge.selected_ram_bank < mmu.cartridge.ram_bank_count

\* last is a write to 0x4000-0x5FFF of the linear-banking controller
ExtendedWrite ==
    /\ last.kind = "write_rom"
    /\ InRange(last.addr, \h4000, \h5FFF)
    /\ mmu.cartridge.kind = "MBC1"

\* the RAM bank that cartridge-RAM reads and writes of controller c index
RamBankUsed(c) == Mbc1RamIndex(c, \hA000) \div \h2000

\* C27: in the linear-banking controller a write of v to 0x4000-0x5FFF
\* leaves the low five bits of the selected ROM bank unchanged; afterwards,
\* in banking mode 1 cartridge RAM uses bank v & 3 (where the cartridge has
\* four RAM banks), and in banking mode 0 it uses RAM bank 0 and reads of
\* 0x0000-0x3FFF come from ROM bank 0.
C27_ExtendedRegister ==
    ExtendedWrite
        => /\ (mmu.cartridge.selected_rom_bank % 32)
                  = (last.pre.cartridge.selected_rom_bank % 32)
           /\ (mmu.cartridge.banking_mode = 1 /\ mmu.cartridge.ram_bank_count >= 4)
                  => RamBankUsed(mmu.cartridge) = (last.value % 4)
           /\ mmu.cartridge.banking_mode = 0
                  => /\ RamBankUsed(mmu.cartridge) = 0
                     /\ CartridgeReadRom(mmu.cartridge, 0) = 1

\* last is a write to the RAM-enable range 0x0000-0x1FFF
EnableWrite ==
    /\ last.kind = "write_rom"
    /\ InRange(last.addr, \h0000, \h1FFF)

\* C28: on the linear-banking and the clock-bearing controllers cartridge
\* RAM is enabled exactly when the most recent write to 0x0000-0x1FFF had low
\* nibble 0xA (so it is disabled before any such write, an enable write sets
\* it by its nibble and nothing else changes it); while it is disabled a
\* cartridge-RAM read returns 0xFF and a cartridge-RAM write leaves the RAM
\* bytes and the clock registers unchanged.
C28_RamGate ==
    mmu.cartridge.kind \in {"MBC1", "MBC3"}
        => /\ last.kind = "init" => ~mmu.cartridge.ram_enabled
           /\ EnableWrite => (mmu.cartridge.ram_enabled <=> (last.value % 16) = 10)
           /\ (last.kind # "init" /\ ~EnableWrite)
                  => (mmu.cartridge.ram_enabled <=> last.pre.cartridge.ram_enabled)
           /\ (last.kind = "read_ram" /\ ~last.pre.cartridge.ram_enabled)
                  => last.value = 255
           /\ (last.kind = "write_ram" /\ ~last.pre.cartridge.ram_enabled)
                  => /\ mmu.cartridge.ram = last.pre.cartridge.ram
                     /\ mmu.cartridge.rtc_ram = last.pre.cartridge.rtc_ram

\* addresses of the ROM address space read back after a write
RomReadProbes == {\h0000, \h0147, \h3FFF, \h4000, \h7FFF}

\* C29: type byte 0x00 constructs the no-banking controller, and for that
\* controller a write to ROM address space or to cartridge RAM is a no-op:
\* the controller is unchanged, read_rom returns what it returned before at
\* every address, and the selected ROM and RAM banks are 0.
C29_NoBankingNoOp ==
    /\ \A rom_code \in RomCodes, ram_code \in RamCodes :
           new_mbc(\h00, rom_code, ram_code).kind = "MBC0"
    /\ mmu.cartridge.kind = "MBC0"
           => /\ mmu.cartridge.selected_rom_bank = 0
              /\ mmu.cartridge.selected_ram_bank = 0
              /\ ~mmu.cartridge.fault
              /\ last.kind \in {"write_rom", "write_ram"}
                     => /\ mmu.cartridge = last.pre.cartridge
                        /\ \A a \in RomReadProbes :
                               CartridgeReadRom(mmu.cartridge, a)
                                   = CartridgeReadRom(last.pre.cartridge, a)

\* a second bank-select write to the no-banking controller, after which
\* 0x4000 still reads the image's second bank
C29_Witness ==
    /\ mmu.cartridge.kind = "MBC0"
    /\ steps >= 2
    /\ last.kind = "write_rom"
    /\ last.addr = \h2000
    /\ last.value = 3
    /\ last.pre.cartridge = mmu.cartridge
    /\ CartridgeReadRom(mmu.cartridge, \h4000) = 2

(***************************************************************************)
(* Opening a ROM with its save file (FileBackedMBC::new) and reopening it  *)
(* (Cartridge::reset), with cartridge-RAM traffic in between.              *)
(***************************************************************************)
SaveTypes == {\h00, \h01, \h03}

SaveRamCodes == {0, 2, 3}

SaveLens == {0, \h2000, \h7FFF, \h8000}

\* the contents a save file of n bytes may have
SaveBytes(n) ==
    IF n = 0 THEN {ZeroArray}
    ELSE {ZeroArray, ArrayPut(ArrayPut(ZeroArray, 0, \h5A), n - 1, \hA5)}

Saves ==
    {[state |-> st, len |-> 0, bytes |-> ZeroArray] : st \in {"missing", "unreadable"}}
        \cup UNION {{[state |-> "data", len |-> n, bytes |-> b] : b \in SaveBytes(n)} :
                        n \in SaveLens}

\* an image whose header carries the controller type and the size codes
HeaderImage(type, rom_code, ram_code) ==
    ArrayPut(ArrayPut(ArrayPut(ZeroArray, \h0147, type), \h0148, rom_code), \h0149, ram_code)

\* the controller new_mbc builds from image data
ImageMbc(data) ==
    [new_mbc(ArrayGet(data, \h0147), ArrayGet(data, \h0148), ArrayGet(data, \h0149))
         EXCEPT !.rom = data]

\* a session exists unless the last open returned an error
SessionRunning == ~(last.kind = "open" /\ ~last.ok) /\ last.kind # "drop"

InitSave ==
    /\ ime = FALSE
    /\ is_halted = FALSE
    /\ call_stack = <<>>
    /\ registers = RegistersNew(FALSE, FALSE)
    /\ \E type \in SaveTypes, ram_code \in SaveRamCodes, save \in Saves :
           /\ mmu = [MmuNew("Classic") EXCEPT
                         !.cartridge =
                             [FileBackedMBC_new(ImageMbc(HeaderImage(type, 1, ram_code)), save).mbc
                                  EXCEPT !.save_file = save]]
           /\ last = [kind |-> "open", save |-> save, pre |-> MmuNew("Classic"),
                      ok |-> FileBackedMBC_new(ImageMbc(HeaderImage(type, 1, ram_code)), save).ok]
    /\ steps = 0
    /\ audio = AudioNew

\* Cartridge::reset: self.mbc = FileBackedMBC::new(..).expect(..).  The new
\* controller is built, and reads the save file, first; the assignment then
\* drops the outgoing controller, which writes its RAM to the save file
Reset(created) ==
    /\ steps < MaxMmuOps
    /\ SessionRunning
    /\ mmu' = [mmu EXCEPT
                   !.cartridge =
                       [FileBackedMBC_new(ImageMbc(mmu.cartridge.rom), mmu.cartridge.save_file).mbc
                            EXCEPT !.save_file = drop(mmu.cartridge, created)]]
    /\ last' = [kind |-> "open", save |-> mmu.cartridge.save_file, pre |-> mmu,
                created |-> created,
                ok |-> FileBackedMBC_new(ImageMbc(mmu.cartridge.rom), mmu.cartridge.save_file).ok]
    /\ steps' = steps + 1
    /\ audio' = audio
    /\ UNCHANGED <<registers, ime, is_halted, call_stack>>

\* session teardown: the cartridge, and with it the controller, is dropped
Teardown(created) ==
    /\ steps < MaxMmuOps
    /\ SessionRunning
    /\ mmu' = [mmu EXCEPT !.cartridge.save_file = drop(mmu.cartridge, created)]
    /\ last' = [kind |-> "drop", created |-> created, pre |-> mmu]
    /\ steps' = steps + 1
    /\ audio' = audio
    /\ UNCHANGED <<registers, ime, is_halted, call_stack>>

NextSave ==
    \/ \E created \in BOOLEAN : Reset(created)
    \/ \E created \in BOOLEAN : Teardown(created)
    \/ \E value \in {\h00, \h0A} : SessionRunning /\ CartWriteRom(\h0000, value)
    \/ \E address \in CartRamProbes : SessionRunning /\ CartWriteRam(address, \h77)
    \/ \E address \in CartRamProbes : SessionRunning /\ CartReadRam(address)

SpecSave == InitSave /\ [][NextSave]_vars

\* the last open read save data into a battery-backed controller
Loaded ==
    /\ last.kind = "open"
    /\ mmu.cartridge.has_battery
    /\ last.save.state = "data"

\* C30: loading save data whose length is not the controller's RAM size
\* returns an error, before any session step, and leaves the RAM as it was
\* constructed; loading data of the exact length replaces the RAM so that
\* dump_ram returns exactly the loaded bytes; a missing save file is not an
\* error and leaves the RAM zero-initialised.
C30_LoadRam ==
    /\ (Loaded /\ last.save.len # mmu.cartridge.ram_len)
           => /\ ~last.ok
              /\ ~SessionRunning
              /\ mmu.cartridge.ram = ZeroArray
    /\ (Loaded /\ last.save.len = mmu.cartridge.ram_len)
           => /\ last.ok
              /\ dump_ram(mmu.cartridge) = [len |-> last.save.len, bytes |-> last.save.bytes]
    /\ (last.kind = "open" /\ last.save.state = "missing")
           => /\ last.ok
              /\ mmu.cartridge.ram = ZeroArray
    /\ (last.kind = "open" /\ ~last.ok) => ~SessionRunning

\* a reopening, after RAM was written, that loads a save file of the exact
\* length with non-zero bytes
C30_Witness ==
    /\ Loaded
    /\ steps >= 2
    /\ last.pre.cartridge.ram # ZeroArray
    /\ last.save.len = \h8000
    /\ last.ok
    /\ ArrayGet(mmu.cartridge.ram, \h7FFF) = \hA5

\* an open refused because the save file is one byte short
C30_WitnessRefused ==
    /\ Loaded
    /\ last.save.len = \h7FFF
    /\ mmu.cartridge.ram_len = \h8000
    /\ ~last.ok

\* the save file holds exactly the RAM of controller c
FileHolds(file, c) ==
    /\ file.state = "data"
    /\ file.len = dump_ram(c).len
    /\ file.bytes = dump_ram(c).bytes

\* C31: on teardown the save file is written (File::create succeeding) if
\* and only if the controller reports a battery, and then holds exactly
\* dump_ram(); on a reset the outgoing controller's RAM is flushed before
\* the replacement loads the save file, so the RAM after the reset equals
\* the battery-backed RAM at the moment of the reset.
C31_FlushBeforeReload ==
    /\ (last.kind = "drop" /\ last.created)
           => IF last.pre.cartridge.has_battery
              THEN FileHolds(mmu.cartridge.save_file, last.pre.cartridge)
              ELSE mmu.cartridge.save_file = last.pre.cartridge.save_file
    /\ (last.kind = "open" /\ steps > 0 /\ last.created /\ last.ok
            /\ last.pre.cartridge.has_battery)
           => mmu.cartridge.ram = last.pre.cartridge.ram

\* last is a write to the latch range 0x6000-0x7FFF
LatchWrite ==
    /\ last.kind = "write_rom"
    /\ InRange(last.addr, \h6000, \h7FFF)

\* C32: on the clock-bearing controller a read of a selected clock register
\* returns the latched copy; the latched copy changes only on a write to
\* 0x6000-0x7FFF that completes a latch transition (a 1 written after a 0);
\* a latch write never alters the live registers while the halt bit is set.
C32_LatchOnTransition ==
    (mmu.cartridge.kind = "MBC3" /\ last.kind # "init")
        => /\ (last.kind = "read_ram" /\ last.pre.cartridge.ram_enabled
                   /\ Mbc3RtcSelected(last.pre.cartridge))
                  => last.value
                         = last.pre.cartridge.rtc_ram_latch[last.pre.cartridge.selected_ram_bank + 1]
           /\ mmu.cartridge.rtc_ram_latch # last.pre.cartridge.rtc_ram_latch
                  => (LatchWrite /\ last.value = 1)
           /\ (LatchWrite /\ IsSet(last.pre.cartridge.rtc_ram[5], 6))
                  => mmu.cartridge.rtc_ram = last.pre.cartridge.rtc_ram

(***************************************************************************)
(* SpecJoypad: the input poll of the front end sets the eight buttons, the *)
(* program selects a button group through 0xFF00 and reads it back.        *)
(***************************************************************************)
Buttons == {"a", "b", "select", "start", "right", "left", "up", "down"}

JoypadValues == {\h00, \h10, \h20, \h30}

\* the input poll of the front end: every button takes the state of its key
PollInput(keys) ==
    /\ steps < MaxMmuOps
    /\ ~mmu.fault
    /\ mmu' = [mmu EXCEPT !.joypad =
                   [@ EXCEPT !.a = "a" \in keys, !.b = "b" \in keys,
                             !.select = "select" \in keys, !.start = "start" \in keys,
                             !.right = "right" \in keys, !.left = "left" \in keys,
                             !.up = "up" \in keys, !.down = "down" \in keys]]
    /\ last' = [kind |-> "poll"]
    /\ steps' = steps + 1
    /\ audio' = audio
    /\ UNCHANGED <<registers, ime, is_halted, call_stack>>

NextJoypad ==
    \/ \E keys \in SUBSET Buttons : PollInput(keys)
    \/ \E value \in JoypadValues : MmuWrite(\hFF00, value)
    \/ MmuRead(\hFF00)

SpecJoypad == InitMmu /\ [][NextJoypad]_vars

\* the low nibble a button group reads as: bit i is clear when button i of
\* the group is pressed
GroupNibble(b0, b1, b2, b3) ==
    15 - (Bit01(b0) + 2 * Bit01(b1) + 4 * Bit01(b2) + 8 * Bit01(b3))

\* last is a write of value to the joypad register
JoypadWrite(value) == last.kind = "write" /\ last.addr = \hFF00 /\ last.value = value

\* C33: after a write of 0x10 the joypad register reads 0xD0 with the action
\* buttons (A, B, Select, Start on bits 0..3) as cleared bits, after 0x20 it
\* reads 0xE0 with the directions (Right, Left, Up, Down on bits 0..3) as
\* cleared bits, after 0x30 it reads 0xFF; a register write leaves all eight
\* buttons as they were.
C33_JoypadSelect ==
    /\ JoypadWrite(\h10)
           => ReadByte(mmu, \hFF00)
                  = \hD0 + GroupNibble(mmu.joypad.a, mmu.joypad.b,
                                       mmu.joypad.select, mmu.joypad.start)
    /\ JoypadWrite(\h20)
           => ReadByte(mmu, \hFF00)
                  = \hE0 + GroupNibble(mmu.joypad.right, mmu.joypad.left,
                                       mmu.joypad.up, mmu.joypad.down)
    /\ JoypadWrite(\h30) => ReadByte(mmu, \hFF00) = \hFF
    /\ (last.kind = "write" /\ last.addr = \hFF00)
           => [mmu.joypad EXCEPT !.selected = "None"]
                  = [last.pre.joypad EXCEPT !.selected = "None"]
    /\ (last.kind = "read" /\ last.addr = \hFF00)
           => /\ last.value = ReadByte(last.pre, \hFF00)
              /\ mmu = last.pre

\* the action group is selected while B, Start and two directions are held
C33_Witness ==
    /\ JoypadWrite(\h10)
    /\ mmu.joypad.b /\ mmu.joypad.start /\ ~mmu.joypad.a /\ ~mmu.joypad.select
    /\ mmu.joypad.left /\ mmu.joypad.down
    /\ ReadByte(mmu, \hFF00) = \hD5

(***************************************************************************)
(* SpecAudio: the emulation thread offers batches of pairs through play,   *)
(* one loop turn per step while it holds the mutex; the device thread runs *)
(* cpal_thread whenever the mutex is free.                                 *)
(***************************************************************************)
SampleRate == 2

MaxPairs == 7

MaxBatch == 4

OutBufferLens == {1, 2, 4}

\* play is called with n pairs: the mutex is taken (the call blocks while
\* the callback holds it) and the loop starts; a call with no pairs returns
PlayCall(n) ==
    /\ audio.lock = "free"
    /\ audio.offered + n <= MaxPairs
    /\ audio' = [audio EXCEPT !.lock = IF n = 0 THEN "free" ELSE "play",
                              !.pending = [i \in 1..n |-> audio.offered + i],
                              !.offered = audio.offered + n]
    /\ UNCHANGED <<registers, ime, is_halted, call_stack, mmu, last, steps>>

PlayLoop ==
    /\ audio.lock = "play"
    /\ audio' = PlayPair(audio, SampleRate)
    /\ UNCHANGED <<registers, ime, is_halted, call_stack, mmu, last, steps>>

DeviceCallback(outbuffer_len) ==
    /\ audio.lock = "free"
    /\ audio.buffer # <<>>
    /\ audio' = cpal_thread(audio, outbuffer_len)
    /\ UNCHANGED <<registers, ime, is_halted, call_stack, mmu, last, steps>>

NextAudio ==
    \/ \E n \in 0..MaxBatch : PlayCall(n)
    \/ PlayLoop
    \/ \E outbuffer_len \in OutBufferLens : DeviceCallback(outbuffer_len)

SpecAudio == InitMmu /\ [][NextAudio]_vars

\* C34: under every interleaving of play and the device callback the buffer
\* holds at most sample_rate + 1 pairs; the pairs delivered followed by the
\* pairs buffered are exactly the pairs accepted, in the order of acceptance,
\* so none is delivered twice or out of order; every pair offered is
\* accepted, dropped or still pending, and a drop is no error.
C34_BufferBounded ==
    /\ Len(audio.buffer) <= SampleRate + 1
    /\ audio.out \o audio.buffer = audio.accepted
    /\ \A i, j \in 1..Len(audio.accepted) : i < j => audio.accepted[i] < audio.accepted[j]
    /\ Len(audio.accepted) + audio.dropped + Len(audio.pending) = audio.offered
    /\ audio.lock \in {"free", "play"}
    /\ audio.lock = "free" => audio.pending = <<>>

\* pairs were dropped on a full buffer, pairs were accepted again after a
\* callback made room, and the device has received pairs
C34_Witness ==
    /\ audio.dropped > 0
    /\ Len(audio.out) >= 3
    /\ \E i \in 1..Len(audio.accepted) : audio.accepted[i] = audio.offered
    /\ audio.lock = "free"

(***************************************************************************)
(* SpecTimer: the bus is stepped by varying cycle counts while the timer   *)
(* registers 0xFF04..0xFF07 are written.  The first write of the control   *)
(* register has been made.                                                 *)
(***************************************************************************)
TimerCycles == {4, 12, 252, 256, 1024}

TacValues == {\h00, \h04, \h05, \h06, \h07}

InitTimer ==
    /\ ime = FALSE
    /\ is_halted = FALSE
    /\ call_stack = <<>>
    /\ registers = RegistersNew(FALSE, FALSE)
    /\ \E tac \in TacValues : mmu = WriteByte(MmuNew("Classic"), \hFF07, tac)
    /\ last = [kind |-> "init"]
    /\ steps = 0
    /\ audio = AudioNew

NextTimer ==
    \/ \E cycles \in TimerCycles : BusStep(cycles)
    \/ \E tac \in TacValues : MmuWrite(\hFF07, tac)
    \/ MmuWrite(\hFF04, \h55)
    \/ MmuWrite(\hFF05, \hFE)
    \/ MmuWrite(\hFF06, \hF0)
    \/ MmuWrite(\hFF0F, \h00)

SpecTimer == InitTimer /\ [][NextTimer]_vars

\* the counter after n increments, each increment past 0xFF reloading the
\* modulo; overflowed tells whether any of them did
RECURSIVE AdvanceCounter(_, _, _, _)
AdvanceCounter(counter, modulo, n, overflowed) ==
    IF n = 0 THEN [counter |-> counter, overflowed |-> overflowed]
    ELSE IF counter = 255 THEN AdvanceCounter(modulo, modulo, n - 1, TRUE)
    ELSE AdvanceCounter(counter + 1, modulo, n - 1, overflowed)

\* bit 2 of the pending register of bus m
TimerPending(m) == IsSet(m.interrupt_flags, 2)

\* C35: while the timer is enabled with period P, a step of c cycles
\* increments the counter once for every P cycles accumulated (the cycles
\* carried over from earlier calls being less than P, so at most c / P + 1
\* times), each increment past 0xFF reloading the modulo and raising bit 2 of
\* the pending register; while it is disabled a step changes neither.
C35_CounterPeriod ==
    last.kind = "step"
        => IF last.pre.timer.enabled
           THEN LET n == (last.pre.timer.internal_counter + last.value) \div last.pre.timer.step
                IN  /\ n <= (last.value \div last.pre.timer.step) + 1
                    /\ mmu.timer.counter
                           = AdvanceCounter(last.pre.timer.counter, last.pre.timer.modulo,
                                            n, FALSE).counter
                    /\ TimerPending(mmu)
                           <=> \/ TimerPending(last.pre)
                               \/ AdvanceCounter(last.pre.timer.counter, last.pre.timer.modulo,
                                                 n, FALSE).overflowed
           ELSE /\ mmu.timer.counter = last.pre.timer.counter
                /\ TimerPending(mmu) <=> TimerPending(last.pre)

\* last is a write to the divider register
DividerWrite == last.kind = "write" /\ last.addr = \hFF04

\* C36: the divider increments, wrapping at 256, once per 256 cycles
\* accumulated over the steps, the timer enabled or not; a write to 0xFF04
\* sets it to 0 and restarts the 256 cycles, so that the next increment
\* comes 256 cycles after the write.
C36_Divider ==
    /\ last.kind = "step"
           => /\ last.pre.timer.internal_divider < 256
              /\ mmu.timer.divider
                     = (last.pre.timer.divider
                            + ((last.pre.timer.internal_divider + last.value) \div 256)) % 256
    /\ DividerWrite
           => /\ mmu.timer.divider = 0
              /\ mmu.timer.internal_divider = 0

\* the cycles the timer of bus m has been advanced by, modulo 65536: the
\* divider counts the 256s and internal_divider the rest
TimerClock(m) == m.timer.divider * 256 + m.timer.internal_divider

\* C37: the cycles a step() forwards to the MMU, read off the timer's
\* divider chain, equal the value step() returns, the 12 dispatch cycles of
\* a serviced interrupt included.
C37_CyclesForwarded ==
    (last.kind = "step" /\ ~last.panicked)
        => /\ TimerClock(mmu) = (TimerClock(last.pre.mmu) + last.cycles) % 65536
           /\ last.cycles = last.exec_cycles + 12 * Len(last.vectors)
           /\ Len(last.vectors) <= 1

\* a step that serviced an interrupt and returned the instruction's cost plus 12
C37_Witness ==
    /\ last.kind = "step"
    /\ ~last.panicked
    /\ Len(last.vectors) = 1
    /\ last.cycles = last.exec_cycles + 12
    /\ TimerClock(mmu) = TimerClock(last.pre.mmu) + 16

\* what the PPU shows after an iteration of the loop of step()
PpuSeen(p) == [ly |-> p.ly, mode |-> p.mode, dots |-> p.dots, drawn |-> p.screen_buffer.drawn]

\* the PPU after each iteration of the loop of step(), in order
RECURSIVE PpuModeTrace(_, _)
PpuModeTrace(p, cycles_left) ==
    IF cycles_left > 0
    THEN <<PpuSeen(PpuStepChunk(p, Min(cycles_left, 80)))>>
             \o PpuModeTrace(PpuStepChunk(p, Min(cycles_left, 80)),
                             cycles_left - Min(cycles_left, 80))
    ELSE <<>>

\* from a to b the PPU stays where it is or moves to the mode that follows:
\* 2, 3, 0 on a visible line (the line painted on entering 0), then mode 2
\* of the next line or mode 1 at line 144, mode 1 through line 153, then
\* mode 2 of line 0
ModeFollows(a, b) ==
    /\ b.dots < 456
    /\ \/ b.ly = a.ly /\ b.mode = a.mode /\ b.drawn = a.drawn
       \/ a.ly < 144 /\ b.ly = a.ly /\ a.mode = 2 /\ b.mode = 3 /\ b.drawn = a.drawn
       \/ a.ly < 144 /\ b.ly = a.ly /\ a.mode = 3 /\ b.mode = 0
              /\ b.drawn = a.drawn \cup {a.ly}
       \/ a.ly < 143 /\ b.ly = a.ly + 1 /\ a.mode = 0 /\ b.mode = 2 /\ b.drawn = a.drawn
       \/ a.ly = 143 /\ b.ly = 144 /\ a.mode = 0 /\ b.mode = 1 /\ b.drawn = a.drawn
       \/ a.ly \in 144..152 /\ b.ly = a.ly + 1 /\ a.mode = 1 /\ b.mode = 1
              /\ b.drawn = a.drawn
       \/ a.ly = 153 /\ b.ly = 0 /\ a.mode = 1 /\ b.mode = 2 /\ b.drawn = a.drawn

\* every element of trace follows the one before it, the first following a
EachFollows(a, trace) ==
    \A i \in 1..Len(trace) : ModeFollows(IF i = 1 THEN a ELSE trace[i - 1], trace[i])

\* C38: with the display on, whatever the cycle counts of the calls, the PPU
\* moves through modes 2, 3 and 0 of every visible line in that order with
\* none skipped, paints the line on entering mode 0 (so once per line), and
\* keeps the dot counter below 456.
C38_ModesInOrder ==
    /\ mmu.ppu.dots < 456
    /\ LcdStep
           => /\ EachFollows(PpuSeen(last.pre.ppu), PpuModeTrace(last.pre.ppu, last.value))
              /\ PpuSeen(mmu.ppu)
                     = PpuModeTrace(last.pre.ppu, last.value)[Len(PpuModeTrace(last.pre.ppu,
                                                                             last.value))]

\* a step of a whole line's cycles that went through modes 3 and 0 of a
\* visible line, painted it, and ended in mode 2 of the next line
C38_Witness ==
    /\ LcdStep
    /\ last.value = 456
    /\ last.pre.ppu.mode = 2
    /\ last.pre.ppu.ly < 143
    /\ mmu.ppu.ly = last.pre.ppu.ly + 1
    /\ mmu.ppu.mode = 2
    /\ last.pre.ppu.ly \notin last.pre.ppu.screen_buffer.drawn
    /\ last.pre.ppu.ly \in mmu.ppu.screen_buffer.drawn
    /\ \E i \in 1..5 : PpuModeTrace(last.pre.ppu, 456)[i].mode = 3
                           /\ PpuModeTrace(last.pre.ppu, 456)[i + 1].mode = 0

(***************************************************************************)
(* The global interrupt enable across step(), under SpecCpu: which         *)
(* instructions set and clear it, when the scan dispatches, and what a     *)
(* step does to the pending register while the enable is clear.            *)
(***************************************************************************)
\* the call returned
Stepped == last.kind = "step" /\ ~last.panicked

\* the call dispatched to a vector
Serviced == Stepped /\ Len(last.vectors) > 0

\* the instruction executed stores the accumulator to IF (LDH (0x0F),A)
StoresIf == last.instr.op = "LD" /\ last.instr.x = "A8FromA" /\ last.instr.imm = \h0F

\* every bit of IF set before the call is still set after it
PendingKept == And8(last.pre.mmu.interrupt_flags, 255 - mmu.interrupt_flags) = 0

\* the enable across the call: a dispatch needs the enable set before the
\* call or by its instruction (EI, RETI) and leaves it clear; it goes from
\* clear to set only by EI and RETI, and from set to clear only by DI and
\* by a dispatch
ImeDiscipline ==
    Stepped
        => /\ Serviced => (last.pre.ime \/ last.instr.op \in {"EI", "RETI"}) /\ ~ime
           /\ Len(last.vectors) <= 1
           /\ (ime /\ ~last.pre.ime) => last.instr.op \in {"EI", "RETI"}
           /\ (~ime /\ last.pre.ime) => last.instr.op = "DI" \/ Serviced
           /\ last.instr.op \in {"EI", "RETI"} => last.mid.ime
           /\ last.instr.op = "DI" => ~ime

\* C39 as stated: the enable is set only by EI and RETI and cleared only by
\* DI and by a dispatch, no interrupt is serviced while it is clear, and a
\* step() that starts and ends with the enable clear never clears a bit of
\* IF, whatever instruction it executes.
C39_AsStated ==
    /\ ImeDiscipline
    /\ (Stepped /\ ~last.pre.ime /\ ~last.mid.ime) => PendingKept

\* C39: the enable is set only by EI and RETI and cleared only by DI and by
\* a dispatch; a step() dispatches at most once, only with the enable set
\* before it or by its own EI or RETI, and leaves the enable clear, so no
\* further interrupt is serviced until EI or RETI executes.  While the
\* enable is clear the scan clears no bit of IF: a step() keeps every pending
\* bit unless its instruction is a store to 0xFF0F, and then IF is the byte
\* stored together with the bits raised during the step.
C39_NoImplicitNesting ==
    /\ ImeDiscipline
    /\ (Stepped /\ ~last.pre.ime /\ ~last.mid.ime)
           => IF StoresIf
              THEN mmu.interrupt_flags
                       = Or8(last.pre.registers.a, RaisedDuring(last.pre.mmu, last.exec_cycles))
              ELSE PendingKept

\* after a dispatch earlier in the run, a step() that finds an enabled
\* interrupt pending with the enable clear services nothing and keeps IF
C39_Witness ==
    /\ Stepped
    /\ Len(last.pre.call_stack) > 0
    /\ ~last.pre.ime /\ ~ime
    /\ last.instr.op = "NOP"
    /\ \E b \in {0, 1, 2} : EnabledPending(last.pre.mmu, b) /\ EnabledPending(mmu, b)
    /\ last.vectors = <<>>
    /\ mmu.interrupt_flags = last.pre.mmu.interrupt_flags

(***************************************************************************)
(* SpecHalt: the run loop calling step() for ever on a program that holds  *)
(* HALT at the entry point and NOP after it.  The runs are not bounded, so *)
(* steps is left alone; the state space is finite because the divider and  *)
(* the timer wrap.  The loop calls step() again as long as the emulator    *)
(* runs (main.rs, ui/state.rs), which is the weak fairness of the          *)
(* specification.                                                          *)
(***************************************************************************)
\* the address of the HALT: PC as constructed
HaltAt == RegistersNew(FALSE, FALSE).pc

\* the timer as constructed (stopped), and running at the 16-cycle period
\* with 16 increments to go
HaltTimers == {TimerNew, [TimerNew EXCEPT !.enabled = TRUE, !.step = 16, !.counter = \hF0]}

InitHalt ==
    /\ is_halted = FALSE
    /\ call_stack = <<>>
    /\ last = [kind |-> "init"]
    /\ steps = 0
    /\ audio = AudioNew
    /\ ime \in BOOLEAN
    /\ registers = RegistersNew(FALSE, FALSE)
    /\ \E ie \in {0, 4}, t \in HaltTimers :
           mmu = [MmuNew("Classic") EXCEPT !.interrupt_enable = ie, !.timer = t]

\* the program: HALT at the entry point, NOP after it
ProgramAt(pc) == IF pc = HaltAt THEN Instr("HALT", None, None, 0) ELSE Instr("NOP", None, None, 0)

\* the run loop has an instruction to run: PC is on the HALT or on the NOP
\* and the bus has not panicked
StepCallable == registers.pc \in {HaltAt, HaltAt + 1} /\ ~mmu.fault

\* step() on the instruction at PC: the first call halts, the later ones
\* find the processor halted with PC still on the HALT
RunStep(instr) ==
    /\ StepCallable
    /\ StepTo(instr, StepResult(Cpu, instr))
    /\ steps' = steps
    /\ audio' = audio

\* a call of step() changes the state (the divider's accumulator moves at
\* least), so NextHalt is enabled exactly when StepCallable holds
NextHalt == \E instr \in {ProgramAt(registers.pc)} : RunStep(instr)

\* weak fairness of the run loop, WF_vars(NextHalt), written out with
\* StepCallable for ENABLED <<NextHalt>>_vars: the loop does not stop calling
\* step() while there is an instruction to run
RunLoopFair == []<>(~StepCallable) \/ []<><<NextHalt>>_vars

SpecHalt == InitHalt /\ [][NextHalt]_vars /\ RunLoopFair

\* the processor is halted with the timer running and its interrupt enabled
Armed == is_halted /\ mmu.timer.enabled /\ IsSet(mmu.interrupt_enable, 2)

\* the step that just returned saw the timer overflow and its bit in IF,
\* ended HALT and moved PC off the HALT
Woken ==
    /\ Stepped
    /\ last.pre.is_halted /\ ~is_halted
    /\ last.pre.mmu.timer.counter = 255
    /\ last.mid.mmu.timer.counter = last.mid.mmu.timer.modulo
    /\ IsSet(last.mid.mmu.interrupt_flags, 2)
    /\ last.pre.registers.pc = HaltAt
    /\ registers.pc # HaltAt

\* source b of IF can raise its bit while the processor is halted: the timer
\* when it runs, the PPU (vblank, LCD-stat) when the display is on; nothing
\* raises the serial and joypad bits
CanRaise(m, b) == (b = 2 /\ m.timer.enabled) \/ (b \in {0, 1} /\ m.ppu.lcd_on)

\* no source enabled in IE is pending or can become pending
Dormant(m) ==
    /\ ~has_interrupt(m)
    /\ \A b \in 0..4 : IsSet(m.interrupt_enable, b) => ~CanRaise(m, b)

\* C40: a halted processor with the timer running and bit 2 of IE set
\* leads, after finitely many step() calls, to a step in which the timer
\* overflows, bit 2 reaches IF, the processor leaves HALT and PC moves off
\* the HALT; and a halted processor none of whose enabled sources can become
\* pending stays halted for ever with PC unchanged.
C40_HaltedEventuallyWakes ==
    /\ Armed ~> Woken
    /\ [](is_halted /\ Dormant(mmu) => [](is_halted /\ registers.pc = HaltAt))

\* the waking step: halted for at least one call before it, then woken by
\* the timer
C40_Witness == Woken /\ last.exec_cycles = 4 /\ last.pre.mmu.timer.internal_counter = 12

====
